---- MODULE Spec2Model ----
(***************************************************************************)
(* Irradiance field of a rectangular cosine source on a parallel           *)
(* rectangular receiver: the four solver variants of the repository        *)
(*   main.py            ps_from_point / ps_for_target / ps_for_all / main   *)
(*   main2.py           calculate_irradiance_vectorized                     *)
(*   interactive_app.py InteractiveIrradianceApp.                           *)
(*                        calculate_irradiance_vectorized                   *)
(*   incupsulation.py   calculate_irradiance_optimized and                  *)
(*                      InteractiveIrradianceApp.                           *)
(*                        calculate_irradiance_extended_model               *)
(*                                                                         *)
(* Numbers.  The source computes in binary floating point (and, in         *)
(* main.py, in 28-digit Decimal for the loop counters).  Here              *)
(*  - a real is an exact rational <<n, d>> in lowest terms, d > 0;         *)
(*  - np.sqrt(q) is kept as the symbolic root of its radicand, and its     *)
(*    square gives the radicand back;                                      *)
(*  - np.pi enters every intensity as the same factor 1/pi: intensities    *)
(*    and field values are carried as rational multiples of 1/pi;          *)
(*  - a Decimal is a digit string with an exponent, and every Decimal      *)
(*    operation rounds its exact result to Prec significant digits,        *)
(*    half to even, as the decimal module does;                            *)
(*  - the float sum accumulated into a receiver cell is kept as the bag    *)
(*    of its addends (the exact sum of a few such fractions does not fit   *)
(*    the integers of the model checker); two cells with equal bags have   *)
(*    equal sums, and scaling a cell scales every addend.                  *)
(***************************************************************************)
EXTENDS Integers, Sequences, FiniteSets, Bags, TLC

\* The parameters are rationals for the array solvers, Decimals for
\* main.py (which is handed strings) and plain integers in the per-pair
\* harness; p and accuracy are integers throughout.
VARIABLES
    variant,     \* which solver is running
    p, l_r, h_r, x, y, R, l_s, h_s, accuracy,   \* the solver's parameters
    pc,          \* position in the running solver
    i, j,        \* indices of the source-sample loops
    result,      \* the field being accumulated: cell -> bag of addends
    call,        \* 1: the call with power p, 2: the repeated call with 2p
    saved,       \* the field returned by call 1
    outcome,     \* how the call ended: "none", "field" or an error name
    pair,        \* inputs of one (source sample, receiver point) evaluation
    contrib,     \* the contribution `variant` computed for `pair`
    x_cur, xi, y_cur, yi,  \* main.ps_for_all: the receiver stepping loops
    tasks_list,  \* main.ps_for_all: the coroutines created, with their cells
    awaited,     \* main.ps_for_all: how many of tasks_list have been awaited
    src,         \* calculate_irradiance_optimized: its source point arrays
    chunk,       \* prange: the worker each outer index i is given to
    priv,        \* prange: each worker's private copy of `result`
    wdone,       \* prange: the passes of the loop body each worker has made
    vmin, vmax,  \* display: np.min and np.max of the field to be shown
    norm,        \* display: the arguments TwoSlopeNorm is constructed with
    gathered,    \* ps_for_target: the ps_from_point coroutines it gathers
    cell_awaits, \* ps_for_all: how often each coroutine of tasks_list was awaited
    reordered,   \* the event loop ran a gathered task before an earlier one
    sliders,     \* InteractiveIrradianceApp: the value of each Slider widget
    normalization_type, power_gamma,    \* InteractiveIrradianceApp: display
    min_irradiance, max_irradiance,     \* InteractiveIrradianceApp: statistics
    handler      \* InteractiveIrradianceApp: the last callback that has run

paramVars == <<p, l_r, h_r, x, y, R, l_s, h_s, accuracy>>
fieldVars == <<pc, i, j, result, call, saved, outcome>>
pairVars  == <<pair, contrib>>
mainVars  == <<x_cur, xi, y_cur, yi, tasks_list, awaited>>
parVars   == <<src, chunk, priv, wdone>>
normVars  == <<vmin, vmax, norm>>
schedVars == <<gathered, cell_awaits, reordered>>
guiVars   == <<sliders, normalization_type, power_gamma,
               min_irradiance, max_irradiance, handler>>
notParVars == <<normVars, schedVars, guiVars>>
notNormVars == <<parVars, schedVars, guiVars>>
extVars   == <<parVars, notParVars>>
vars == <<variant, paramVars, fieldVars, pairVars, mainVars, extVars>>

(***************************************************************************)
(* Bounds of the model.                                                    *)
(***************************************************************************)
MaxCoord == 2     \* per-pair harness: coordinates range over 0..MaxCoord
MaxDim   == 2     \* rectangle sides range over 1..MaxDim
MaxAcc   == 3     \* accuracy ranges over 2..MaxAcc
MaxP     == 1     \* power ranges up to MaxP

(***************************************************************************)
(* Exact rationals.                                                        *)
(***************************************************************************)
Abs(n) == IF n < 0 THEN -n ELSE n

RECURSIVE GCD(_, _)
GCD(a, b) == IF b = 0 THEN a ELSE GCD(b, a % b)

RNorm(n, d) ==
    LET g == GCD(Abs(n), Abs(d))
        s == IF d < 0 THEN -1 ELSE 1
    IN  <<s * (n \div g), s * (d \div g)>>

Rat(n) == <<n, 1>>

RAdd(a, b) ==
    LET g == GCD(a[2], b[2])
    IN  RNorm(a[1] * (b[2] \div g) + b[1] * (a[2] \div g), (a[2] \div g) * b[2])

RNeg(a) == <<-a[1], a[2]>>

RSub(a, b) == RAdd(a, RNeg(b))

\* cross-cancel before multiplying, so that the products stay small
RMul(a, b) ==
    LET g1 == GCD(Abs(a[1]), b[2])
        g2 == GCD(Abs(b[1]), a[2])
    IN  RNorm((a[1] \div g1) * (b[1] \div g2), (a[2] \div g2) * (b[2] \div g1))

\* b # 0
RDiv(a, b) == RMul(a, IF b[1] < 0 THEN <<-b[2], -b[1]>> ELSE <<b[2], b[1]>>)

RSq(a) == RMul(a, a)

RLess(a, b) == RSub(a, b)[1] < 0

RLeq(a, b) == RSub(a, b)[1] <= 0

RMax(a, b) == IF RLess(a, b) THEN b ELSE a

(***************************************************************************)
(* np.sqrt and the quotient L_sr / np.sqrt(...).  The root stays symbolic; *)
(* only the square of the quotient is ever used by the solvers.            *)
(***************************************************************************)
Sqrt(q) == [radicand |-> q]

DivBySqrt(a, s) == [num |-> a, root |-> s]

\* (a / sqrt(q)) ** 2 = a**2 / q
SqOfQuot(c) == RDiv(RSq(c.num), c.root.radicand)

(***************************************************************************)
(* The contribution of one source sample to one receiver point.            *)
(***************************************************************************)

\* main.py: ps_from_point, with a defect of the kind the inverse-square
\* limit detects (division by L_sr instead of L_sr**2)
ps_from_point_NoSquare(rx, ry, xs, ys, x_pos, y_pos, L_sr, I_i) ==
    LET dx == RSub(RAdd(xs, x_pos), rx)
        dy == RSub(RAdd(ys, y_pos), ry)
        L_vect == Sqrt(RAdd(RAdd(RSq(dx), RSq(dy)), RSq(L_sr)))
        cos_a == DivBySqrt(L_sr, L_vect)
    IN  RDiv(RMul(I_i, SqOfQuot(cos_a)), L_sr)

\* main.py: ps_from_point(x, y, xs, ys, x_pos, y_pos, L_sr, I_i)
ps_from_point(rx, ry, xs, ys, x_pos, y_pos, L_sr, I_i) ==
    LET xs_actual == RAdd(xs, x_pos)
        ys_actual == RAdd(ys, y_pos)
        dx == RSub(xs_actual, rx)
        dy == RSub(ys_actual, ry)
        L_vect == Sqrt(RAdd(RAdd(RSq(dx), RSq(dy)), RSq(L_sr)))
        cos_a == DivBySqrt(L_sr, L_vect)
    IN  RDiv(RMul(I_i, SqOfQuot(cos_a)), RSq(L_sr))

\* main2.py with the contribution subtracted from the field
Main2Term_Subtracted(X_r, Y_r, x_s, y_s, L_sr, I_i) ==
    LET dx == RSub(X_r, x_s)
        dy == RSub(Y_r, y_s)
        L_vect == Sqrt(RAdd(RAdd(RSq(dx), RSq(dy)), RSq(L_sr)))
        cos_a == DivBySqrt(L_sr, L_vect)
    IN  RNeg(RDiv(RMul(I_i, SqOfQuot(cos_a)), RSq(L_sr)))

\* main2.py: the body of the loops of calculate_irradiance_vectorized, for
\* one receiver point (X_r, Y_r) and the source sample (x_s, y_s)
Main2Term(X_r, Y_r, x_s, y_s, L_sr, I_i) ==
    LET dx == RSub(X_r, x_s)
        dy == RSub(Y_r, y_s)
        L_vect == Sqrt(RAdd(RAdd(RSq(dx), RSq(dy)), RSq(L_sr)))
        cos_a == DivBySqrt(L_sr, L_vect)
    IN  RDiv(RMul(I_i, SqOfQuot(cos_a)), RSq(L_sr))

\* interactive_app.py with the source coordinates exchanged: dx is taken
\* against y_s and dy against x_s
IAppTerm_Exchanged(X_r, Y_r, x_s, y_s, L_sr, I_i) ==
    LET dx == RSub(X_r, y_s)
        dy == RSub(Y_r, x_s)
        L_vect == Sqrt(RAdd(RAdd(RSq(dx), RSq(dy)), RSq(L_sr)))
        cos_a == DivBySqrt(L_sr, L_vect)
    IN  RDiv(RMul(I_i, SqOfQuot(cos_a)), RSq(L_sr))

\* interactive_app.py: the body of the loops of
\* InteractiveIrradianceApp.calculate_irradiance_vectorized
IAppTerm(X_r, Y_r, x_s, y_s, L_sr, I_i) ==
    LET dx == RSub(X_r, x_s)
        dy == RSub(Y_r, y_s)
        L_vect == Sqrt(RAdd(RAdd(RSq(dx), RSq(dy)), RSq(L_sr)))
        cos_a == DivBySqrt(L_sr, L_vect)
    IN  RDiv(RMul(I_i, SqOfQuot(cos_a)), RSq(L_sr))

\* incupsulation.py: the body of the loops of calculate_irradiance_optimized
OptTerm(X_r, Y_r, x_s, y_s, L_sr, I_i) ==
    LET dx == RSub(X_r, x_s)
        dy == RSub(Y_r, y_s)
        distance_sq == RAdd(RAdd(RSq(dx), RSq(dy)), RSq(L_sr))
        cos_alpha == DivBySqrt(L_sr, Sqrt(distance_sq))
    IN  RDiv(RMul(I_i, SqOfQuot(cos_alpha)), distance_sq)

\* I_i with the power entering squared: a solver that is not linear in P
Intensity_Squared(P_source, match) ==
    RDiv(Rat(P_source * P_source), Rat(match * match))

\* I_i = P_source / (np.pi * match**2), as a multiple of 1/pi
Intensity(P_source, match) == RDiv(Rat(P_source), Rat(match * match))

(***************************************************************************)
(* Values of the variables a harness does not use.                         *)
(***************************************************************************)
IdleField ==
    /\ pc = "idle" /\ i = 0 /\ j = 0 /\ result = <<>>
    /\ call = 0 /\ saved = <<>> /\ outcome = "none"

IdlePair == pair = <<>> /\ contrib = <<>>

IdleMain ==
    /\ x_cur = <<>> /\ xi = 0 /\ y_cur = <<>> /\ yi = 0
    /\ tasks_list = <<>> /\ awaited = 0

IdlePar == src = <<>> /\ chunk = <<>> /\ priv = <<>> /\ wdone = <<>>

IdleNorm == vmin = <<>> /\ vmax = <<>> /\ norm = <<>>

IdleSched == gathered = <<>> /\ cell_awaits = <<>> /\ reordered = FALSE

\* No InteractiveIrradianceApp has been constructed.
IdleGui ==
    /\ sliders = <<>> /\ normalization_type = "" /\ power_gamma = <<>>
    /\ min_irradiance = <<>> /\ max_irradiance = <<>> /\ handler = <<>>

IdleExt == IdlePar /\ IdleNorm /\ IdleSched /\ IdleGui

(***************************************************************************)
(* Harness 1: one source sample, one receiver point, every variant.        *)
(* The receiver point is (rx, ry), the source sample is at offset (xs, ys) *)
(* from the placement (x, y), the standoff is R and the intensity is the   *)
(* one the solvers derive from p and accuracy.                             *)
(***************************************************************************)
InitPair ==
    /\ variant = "none"
    /\ p \in 0..MaxP
    /\ accuracy \in 2..MaxAcc
    /\ R \in 1..MaxDim
    /\ x \in 0..1 /\ y \in 0..1
    /\ l_r = 0 /\ h_r = 0 /\ l_s = 0 /\ h_s = 0
    /\ pair \in [rx : 0..MaxCoord, ry : 0..MaxCoord,
                 xs : 0..MaxCoord, ys : 0..MaxCoord]
    /\ contrib = <<>>
    /\ IdleField /\ IdleMain /\ IdleExt

\* the absolute position of the source sample: xs + x_pos, ys + y_pos
PairXs == RAdd(Rat(pair.xs), Rat(x))
PairYs == RAdd(Rat(pair.ys), Rat(y))

Apply_ps_from_point ==
    /\ pair # <<>>
    /\ variant' = "main"
    /\ contrib' = ps_from_point(Rat(pair.rx), Rat(pair.ry), Rat(pair.xs),
                                Rat(pair.ys), Rat(x), Rat(y), Rat(R),
                                Intensity(p, accuracy))
    /\ UNCHANGED <<extVars, paramVars, fieldVars, pair, mainVars>>

Apply_Main2Term ==
    /\ pair # <<>>
    /\ variant' = "main2"
    /\ contrib' = Main2Term(Rat(pair.rx), Rat(pair.ry), PairXs, PairYs,
                            Rat(R), Intensity(p, accuracy))
    /\ UNCHANGED <<extVars, paramVars, fieldVars, pair, mainVars>>

Apply_IAppTerm ==
    /\ pair # <<>>
    /\ variant' = "interactive_app"
    /\ contrib' = IAppTerm(Rat(pair.rx), Rat(pair.ry), PairXs, PairYs,
                           Rat(R), Intensity(p, accuracy))
    /\ UNCHANGED <<extVars, paramVars, fieldVars, pair, mainVars>>

Apply_OptTerm ==
    /\ pair # <<>>
    /\ variant' = "incupsulation"
    /\ contrib' = OptTerm(Rat(pair.rx), Rat(pair.ry), PairXs, PairYs,
                          Rat(R), Intensity(p, accuracy))
    /\ UNCHANGED <<extVars, paramVars, fieldVars, pair, mainVars>>

NextPair ==
    \/ Apply_ps_from_point
    \/ Apply_Main2Term
    \/ Apply_IAppTerm
    \/ Apply_OptTerm

SpecPair == InitPair /\ [][NextPair]_vars

\* the quantities the per-pair claims speak of
PairApplied == pair # <<>> /\ variant # "none"
PairDx == RSub(PairXs, Rat(pair.rx))
PairDy == RSub(PairYs, Rat(pair.ry))
PairR2 == RAdd(RAdd(RSq(PairDx), RSq(PairDy)), RSq(Rat(R)))

\* C1: in every variant the contribution of one source sample to one
\* receiver point is I_i * cos(a)^2 / r^2 = I_i * L^2 / (r^2)^2, where
\* r^2 = dx^2 + dy^2 + L^2.
C1_PerPairInverseSquare ==
    PairApplied =>
        contrib = RDiv(RMul(Intensity(p, accuracy), RSq(Rat(R))), RSq(PairR2))

\* C8: for a source sample directly above the receiver point (dx = dy = 0)
\* every variant computes exactly I_i / L^2.
C8_InverseSquareLimit ==
    (PairApplied /\ PairDx = Rat(0) /\ PairDy = Rat(0)) =>
        contrib = RDiv(Intensity(p, accuracy), RSq(Rat(R)))

C8_Witness ==
    /\ PairApplied /\ variant = "main"
    /\ PairDx = Rat(0) /\ PairDy = Rat(0)
    /\ R > 1 /\ p > 0
    /\ contrib = RDiv(Intensity(p, accuracy), RSq(Rat(R)))

(***************************************************************************)
(* decimal.Decimal, non-negative, as main.py uses it for its loop          *)
(* counters: [c |-> digits, most significant first, e |-> exponent], the   *)
(* value being c * 10^e.  Values are kept canonical (no leading and no     *)
(* trailing zero digits; zero is the empty digit string with exponent 0),  *)
(* so that equal values are equal records.                                 *)
(***************************************************************************)
Prec == 28     \* getcontext().prec = 28

Zeros(n) == [t \in 1..n |-> 0]

Front(ds) == SubSeq(ds, 1, Len(ds) - 1)

RECURSIVE StripLead(_)
StripLead(ds) ==
    IF ds # <<>> /\ Head(ds) = 0 THEN StripLead(Tail(ds)) ELSE ds

RECURSIVE StripTrail(_, _)
StripTrail(ds, e) ==
    IF ds = <<>> THEN [c |-> <<>>, e |-> 0]
    ELSE IF ds[Len(ds)] = 0 THEN StripTrail(Front(ds), e + 1)
    ELSE [c |-> ds, e |-> e]

DecCanon(ds, e) == StripTrail(StripLead(ds), e)

RECURSIVE DigitsOf(_)
DigitsOf(n) == IF n < 10 THEN <<n>> ELSE Append(DigitsOf(n \div 10), n % 10)

\* Decimal(str(n)) for an integer n >= 0
DecOfInt(n) == DecCanon(DigitsOf(n), 0)

DecZero == DecOfInt(0)

\* ds + 1 on a digit string
RECURSIVE IncDigits(_)
IncDigits(ds) ==
    IF ds = <<>> THEN <<1>>
    ELSE IF ds[Len(ds)] = 9 THEN Append(IncDigits(Front(ds)), 0)
    ELSE Append(Front(ds), ds[Len(ds)] + 1)

\* the context's rounding: ds * 10^e (ds without leading zeros), followed by
\* a non-zero remainder when `sticky`, to Prec digits, ROUND_HALF_EVEN
DecRound(ds, e, sticky) ==
    IF Len(ds) <= Prec THEN DecCanon(ds, e)
    ELSE LET keep  == SubSeq(ds, 1, Prec)
             guard == ds[Prec + 1]
             more  == sticky \/ \E t \in (Prec + 2)..Len(ds) : ds[t] # 0
             up    == \/ guard > 5
                      \/ guard = 5 /\ (more \/ keep[Prec] % 2 = 1)
         IN  DecCanon(IF up THEN IncDigits(keep) ELSE keep, e + Len(ds) - Prec)

\* long division of the digit string `rest` (then zeros) by the integer m:
\* q collects the quotient digits without leading zeros, until the division
\* is exact or Prec + 1 digits are known
RECURSIVE LongDiv(_, _, _, _, _)
LongDiv(rest, rem, q, e, m) ==
    IF Len(q) = Prec + 1
    THEN DecRound(q, e + Len(rest), rem # 0 \/ \E t \in 1..Len(rest) : rest[t] # 0)
    ELSE IF rest = <<>> /\ rem = 0 THEN DecRound(q, e, FALSE)
    ELSE LET cur == rem * 10 + (IF rest = <<>> THEN 0 ELSE Head(rest))
             d   == cur \div m
             q2  == IF q = <<>> /\ d = 0 THEN q ELSE Append(q, d)
         IN  LongDiv(IF rest = <<>> THEN rest ELSE Tail(rest), cur % m, q2,
                     IF rest = <<>> THEN e - 1 ELSE e, m)

\* a / Decimal(m), for an integer m > 0
DecDivInt(a, m) == LongDiv(a.c, 0, <<>>, a.e, m)

\* the digit strings of a and b over a common exponent and of equal length
DecAligned(a, b) ==
    LET e  == IF a.e < b.e THEN a.e ELSE b.e
        A  == a.c \o Zeros(a.e - e)
        B  == b.c \o Zeros(b.e - e)
        n  == IF Len(A) < Len(B) THEN Len(B) ELSE Len(A)
    IN  [A |-> Zeros(n - Len(A)) \o A, B |-> Zeros(n - Len(B)) \o B, e |-> e]

RECURSIVE AddDigits(_, _, _)
AddDigits(A, B, carry) ==
    IF A = <<>> THEN (IF carry = 0 THEN <<>> ELSE <<carry>>)
    ELSE LET t == A[Len(A)] + B[Len(B)] + carry
         IN  Append(AddDigits(Front(A), Front(B), t \div 10), t % 10)

\* a + b in the context
DecAdd(a, b) ==
    LET al == DecAligned(a, b)
    IN  DecRound(StripLead(AddDigits(al.A, al.B, 0)), al.e, FALSE)

RECURSIVE DigitsLess(_, _)
DigitsLess(A, B) ==
    IF A = <<>> THEN FALSE
    ELSE IF Head(A) # Head(B) THEN Head(A) < Head(B)
    ELSE DigitsLess(Tail(A), Tail(B))

\* a < b (comparisons are exact)
DecLess(a, b) == LET al == DecAligned(a, b) IN DigitsLess(al.A, al.B)

RECURSIVE MulDigits(_, _, _)
MulDigits(A, k, carry) ==
    IF A = <<>> THEN (IF carry = 0 THEN <<>> ELSE DigitsOf(carry))
    ELSE LET t == A[Len(A)] * k + carry
         IN  Append(MulDigits(Front(A), k, t \div 10), t % 10)

\* the exact product a * k for an integer k >= 0 (no rounding: it is used
\* to state properties, not by the program)
DecTimesInt(a, k) == DecCanon(MulDigits(a.c, k, 0), a.e)

(***************************************************************************)
(* main.py: ps_for_target and ps_for_all.                                  *)
(* A coroutine object does nothing until it is awaited: ps_for_all first   *)
(* creates one ps_for_target coroutine per receiver point, then awaits     *)
(* them in order.  The sum a ps_for_target call returns is recorded as the *)
(* receiver point it was created for together with the source samples it   *)
(* gathered (one ps_from_point coroutine each).                            *)
(***************************************************************************)

\* ps_for_target: the loop `while ys < h_s`, appending one task per pass
RECURSIVE SourceInner(_, _, _, _, _)
SourceInner(xs, ys, h, ystep_s, tasks) ==
    IF DecLess(ys, h)
    THEN SourceInner(xs, DecAdd(ys, ystep_s), h, ystep_s,
                     Append(tasks, [xs |-> xs, ys |-> ys]))
    ELSE tasks

\* ps_for_target: the loop `while xs < l_s`
RECURSIVE SourceOuter(_, _, _, _, _, _)
SourceOuter(xs, l, h, xstep_s, ystep_s, tasks) ==
    IF DecLess(xs, l)
    THEN SourceOuter(DecAdd(xs, xstep_s), l, h, xstep_s, ystep_s,
                     SourceInner(xs, DecZero, h, ystep_s, tasks))
    ELSE tasks

\* ps_for_target(x, y, l_s, h_s, xstep_s, ystep_s, ...): the sum of the
\* gathered ps_from_point results for the receiver point (x, y)
ps_for_target(rx, ry, l, h, xstep_s, ystep_s) ==
    [x |-> rx, y |-> ry,
     tasks_list |-> SourceOuter(DecZero, l, h, xstep_s, ystep_s, <<>>)]

\* ps_for_all: the steps computed before the loops
x_step_r == DecDivInt(l_r, accuracy)
y_step_r == DecDivInt(h_r, accuracy)
xstep_s  == DecDivInt(l_s, accuracy)
ystep_s  == DecDivInt(h_s, accuracy)

\* the initial 0 of a cell of `result`, told apart from every awaited sum
InitialZero == [initial |-> 0]

\* result = [[0] * match for _ in range(match)]
ZeroLists(match) ==
    [a \in 0..(match - 1) |-> [b \in 0..(match - 1) |-> InitialZero]]

\* ps_for_all with an inner loop that stops one column early
InnerCond_Short == DecLess(y_cur, h_r) /\ yi < accuracy - 1

\* ps_for_all: `while y < h_r and yi < match`
InnerCond == DecLess(y_cur, h_r) /\ yi < accuracy

\* ps_for_all: `while x < l_r and xi < match`
OuterCond == DecLess(x_cur, l_r) /\ xi < accuracy

InitMain ==
    /\ variant = "main"
    /\ p \in {0, MaxP}
    /\ accuracy \in 2..MaxAcc
    /\ R = 1
    /\ x = DecZero /\ y = DecZero
    /\ l_r \in {DecOfInt(n) : n \in 1..MaxDim}
    /\ h_r \in {DecOfInt(n) : n \in 1..MaxDim}
    /\ l_s \in {DecOfInt(n) : n \in 1..MaxDim}
    /\ h_s \in {l_s, DecOfInt(MaxDim)}
    /\ pc = "outer" /\ i = 0 /\ j = 0
    /\ result = ZeroLists(accuracy)
    /\ call = 1 /\ saved = <<>> /\ outcome = "none"
    /\ x_cur = DecZero /\ xi = 0 /\ y_cur = DecZero /\ yi = 0
    /\ tasks_list = <<>> /\ awaited = 0
    /\ IdlePair /\ IdleExt

\* the outer loop is entered: yi = 0; y = Decimal('0')
PsForAll_OuterEnter ==
    /\ variant = "main" /\ pc = "outer"
    /\ OuterCond
    /\ yi' = 0 /\ y_cur' = DecZero
    /\ pc' = "inner"
    /\ UNCHANGED <<extVars, variant, paramVars, i, j, result, call, saved, outcome,
                   pairVars, x_cur, xi, tasks_list, awaited>>

\* one pass of the inner loop: the task is created and appended
PsForAll_InnerPass ==
    /\ variant = "main" /\ pc = "inner"
    /\ InnerCond
    /\ tasks_list' = Append(tasks_list,
                            [x |-> x_cur, y |-> y_cur, xi |-> xi, yi |-> yi])
    /\ yi' = yi + 1
    /\ y_cur' = DecAdd(y_cur, y_step_r)
    /\ UNCHANGED <<extVars, variant, paramVars, fieldVars, pairVars, x_cur, xi, awaited>>

\* the inner loop ends: xi += 1; x += x_step_r
PsForAll_InnerExit ==
    /\ variant = "main" /\ pc = "inner"
    /\ ~InnerCond
    /\ xi' = xi + 1
    /\ x_cur' = DecAdd(x_cur, x_step_r)
    /\ pc' = "outer"
    /\ UNCHANGED <<extVars, variant, paramVars, i, j, result, call, saved, outcome,
                   pairVars, y_cur, yi, tasks_list, awaited>>

(***************************************************************************)
(* The awaits of ps_for_all.  `await task` on a ps_for_target coroutine    *)
(* runs its body in the awaiting task up to `await asyncio.gather(...)`,   *)
(* where ps_for_all is suspended and the event loop runs the gathered      *)
(* ps_from_point Tasks; when the last of them is done ps_for_all is        *)
(* resumed and stores the sum.                                             *)
(***************************************************************************)
\* result[t.xi][t.yi] with the indices exchanged
StoreIndex_Exchanged(t) == <<t.yi, t.xi>>

\* `for task, xi, yi in tasks_list: result[xi][yi] = await task`
StoreIndex(t) == <<t.xi, t.yi>>

\* the loops have ended: no coroutine of tasks_list has been awaited yet
Sched_LoopsDone ==
    /\ variant = "main" /\ pc = "outer"
    /\ ~OuterCond
    /\ cell_awaits' = [k \in 1..Len(tasks_list) |-> 0]
    /\ pc' = "await"
    /\ UNCHANGED <<variant, paramVars, i, j, result, call, saved, outcome,
                   pairVars, mainVars, parVars, normVars, guiVars, gathered,
                   reordered>>

\* `await task` starts the next ps_for_target coroutine, which runs up to
\* its `await asyncio.gather(*tasks_list)`
Sched_AwaitStart ==
    /\ variant = "main" /\ pc = "await"
    /\ awaited < Len(tasks_list)
    /\ LET t == tasks_list[awaited + 1]
           made == SourceOuter(DecZero, l_s, h_s, xstep_s, ystep_s, <<>>)
       IN  /\ gathered' = [k \in 1..Len(made) |->
                              [x |-> t.x, y |-> t.y, xs |-> made[k].xs,
                               ys |-> made[k].ys, runs |-> 0]]
           \* `for task, xi, yi in tasks_list` binds xi and yi anew
           /\ xi' = t.xi /\ yi' = t.yi
    /\ cell_awaits' = [cell_awaits EXCEPT ![awaited + 1] = @ + 1]
    /\ pc' = "gather"
    /\ UNCHANGED <<variant, paramVars, i, j, result, call, saved, outcome,
                   pairVars, x_cur, y_cur, tasks_list, awaited, parVars,
                   normVars, guiVars, reordered>>

\* the event loop runs one of the gathered Tasks that has not run yet
Sched_RunGathered(k) ==
    /\ variant = "main" /\ pc = "gather"
    /\ k \in 1..Len(gathered)
    /\ gathered[k].runs = 0
    /\ gathered' = [gathered EXCEPT ![k].runs = @ + 1]
    /\ reordered' = (reordered \/ \E m \in 1..(k - 1) : gathered[m].runs = 0)
    /\ UNCHANGED <<variant, paramVars, fieldVars, pairVars, mainVars,
                   parVars, normVars, guiVars, cell_awaits>>

\* every gathered Task is done: gather returns the results in the order of
\* its arguments, ps_for_target returns their sum and ps_for_all stores it
Sched_AwaitFinish ==
    /\ variant = "main" /\ pc = "gather"
    /\ \A k \in 1..Len(gathered) : gathered[k].runs > 0
    /\ LET t == tasks_list[awaited + 1]
           results == [k \in 1..Len(gathered) |->
                          [xs |-> gathered[k].xs, ys |-> gathered[k].ys]]
       IN  result' = [result EXCEPT ![StoreIndex(t)[1]][StoreIndex(t)[2]] =
                         [x |-> gathered[1].x, y |-> gathered[1].y,
                          tasks_list |-> results]]
    /\ awaited' = awaited + 1
    /\ pc' = "await"
    /\ UNCHANGED <<variant, paramVars, i, j, call, saved, outcome, pairVars,
                   x_cur, xi, y_cur, yi, tasks_list, extVars>>

\* return result
PsForAll_Return ==
    /\ variant = "main" /\ pc = "await"
    /\ awaited = Len(tasks_list)
    /\ pc' = "done"
    /\ outcome' = "field"
    /\ UNCHANGED <<extVars, variant, paramVars, i, j, result, call, saved,
                   pairVars, mainVars>>

\* the Task the event loop runs next: its ready queue is first in, first
\* out, and gather schedules the Tasks in the order of its arguments
FirstReady(k) ==
    gathered[k].runs = 0 /\ \A m \in 1..(k - 1) : gathered[m].runs > 0

NextMain ==
    \/ PsForAll_OuterEnter
    \/ PsForAll_InnerPass
    \/ PsForAll_InnerExit
    \/ Sched_LoopsDone
    \/ Sched_AwaitStart
    \/ \E k \in 1..Len(gathered) : FirstReady(k) /\ Sched_RunGathered(k)
    \/ Sched_AwaitFinish
    \/ PsForAll_Return

SpecMain == InitMain /\ [][NextMain]_vars

\* C2: the receiver evaluation points are x_r[i] = i * l_r/(N-1) and
\* y_r[j] = j * h_r/(N-1), also for the Decimal stepping loop of
\* main.ps_for_all: every coroutine is created for such a point.
C2_ReceiverPointsMain ==
    variant = "main" =>
        \A k \in 1..Len(tasks_list) :
            LET t == tasks_list[k]
            IN  /\ DecTimesInt(t.x, accuracy - 1) = DecTimesInt(l_r, t.xi)
                /\ DecTimesInt(t.y, accuracy - 1) = DecTimesInt(h_r, t.yi)

\* C3: the number of source samples summed into a receiver cell is the
\* number M = match**2 that the power is divided by in I_i = P/(pi M).
C3_SampleCountMain ==
    variant = "main" =>
        \A a \in DOMAIN result : \A b \in DOMAIN result[a] :
            result[a][b] # InitialZero =>
                Len(result[a][b].tasks_list) = accuracy * accuracy

(***************************************************************************)
(* The array solvers: main2.py, interactive_app.py, incupsulation.py.      *)
(* A field is a function from the cells <<row, col>> of the receiver grid  *)
(* to the bag of addends accumulated into the cell.  np.meshgrid (default  *)
(* indexing 'xy') gives X_r[row][col] = x_r[col], Y_r[row][col] = y_r[row].*)
(***************************************************************************)
Cells(match) == (0..(match - 1)) \X (0..(match - 1))

\* np.zeros((match, match))
ZeroField(match) == [c \in Cells(match) |-> EmptyBag]

\* np.linspace(start, stop, num)[k]
Linspace(start, stop, num, k) ==
    IF num = 1 THEN start
    ELSE RAdd(start, RDiv(RMul(Rat(k), RSub(stop, start)), Rat(num - 1)))

x_r(k) == Linspace(Rat(0), l_r, accuracy, k)
y_r(k) == Linspace(Rat(0), h_r, accuracy, k)

\* every addend of the bag times q
ScaleCell(B, q) ==
    LET S == {RMul(t, q) : t \in BagToSet(B)}
    IN  [s \in S |->
            IF q = Rat(0) THEN BagCardinality(B) ELSE CopiesIn(RDiv(s, q), B)]

\* field * q
ScaleField(field, q) == [c \in DOMAIN field |-> ScaleCell(field[c], q)]

\* the successor of (i, j) in `for i in range(n): for j in range(m)`
NextIJ(n, m) == IF j + 1 < m THEN <<i, j + 1>> ELSE <<i + 1, 0>>

(***************************************************************************)
(* main2.py and interactive_app.py: calculate_irradiance_vectorized.       *)
(***************************************************************************)
\* x_s = np.linspace(0, l_s, match) + x
x_s(k) == RAdd(Linspace(Rat(0), l_s, accuracy, k), x)
y_s(k) == RAdd(Linspace(Rat(0), h_s, accuracy, k), y)

\* result / 0.005
CalibrationDivisor == <<1, 200>>

\* one pass of main2's loops: for i: for j: result += I_i*cos_a**2/L_sr**2
Main2_Accumulate ==
    /\ variant = "main2" /\ pc = "loop"
    /\ result' = [c \in DOMAIN result |->
                      result[c] (+) SetToBag({
                          Main2Term(x_r(c[2]), y_r(c[1]), x_s(i), y_s(j), R,
                              Intensity(p, accuracy))})]
    /\ i' = NextIJ(accuracy, accuracy)[1]
    /\ j' = NextIJ(accuracy, accuracy)[2]
    /\ pc' = IF i' < accuracy THEN "loop" ELSE "post"
    /\ UNCHANGED <<extVars, variant, paramVars, call, saved, outcome, pairVars, mainVars>>

\* return result / 0.005
Main2_Return ==
    /\ variant = "main2" /\ pc = "post"
    /\ result' = ScaleField(result, RDiv(Rat(1), CalibrationDivisor))
    /\ pc' = "done"
    /\ outcome' = "field"
    /\ UNCHANGED <<extVars, variant, paramVars, i, j, call, saved, pairVars, mainVars>>

\* one pass of interactive_app's loops: dx = X_r - x_s[j]; dy = Y_r - y_s[i]
IApp_Accumulate ==
    /\ variant = "interactive_app" /\ pc = "loop"
    /\ result' = [c \in DOMAIN result |->
                      result[c] (+) SetToBag({
                          IAppTerm(x_r(c[2]), y_r(c[1]), x_s(j), y_s(i), R,
                              Intensity(p, accuracy))})]
    /\ i' = NextIJ(accuracy, accuracy)[1]
    /\ j' = NextIJ(accuracy, accuracy)[2]
    /\ pc' = IF i' < accuracy THEN "loop" ELSE "post"
    /\ UNCHANGED <<extVars, variant, paramVars, call, saved, outcome, pairVars, mainVars>>

\* return result / 0.005
IApp_Return ==
    /\ variant = "interactive_app" /\ pc = "post"
    /\ result' = ScaleField(result, RDiv(Rat(1), CalibrationDivisor))
    /\ pc' = "done"
    /\ outcome' = "field"
    /\ UNCHANGED <<extVars, variant, paramVars, i, j, call, saved, pairVars, mainVars>>

(***************************************************************************)
(* incupsulation.py: calculate_irradiance_extended_model, which calls      *)
(* calculate_irradiance_optimized and then applies the small-distance      *)
(* correction.  The loops are stepped here in their sequential order.      *)
(***************************************************************************)
Min(a, b) == IF a < b THEN a ELSE b
Max(a, b) == IF a < b THEN b ELSE a

SourceFactorLow  == 2     \* max(2, ...)
SourceFactorHigh == 10    \* min(10, match // 10)
SourceFactorDiv  == 10    \* match // 10

\* source_points_factor = max(2, min(10, match // 10))
source_points_factor ==
    Max(SourceFactorLow, Min(SourceFactorHigh, accuracy \div SourceFactorDiv))

Half(q) == RDiv(q, Rat(2))

\* a source anchored at its corner, as in main2.py
x_s_points_Corner(k) == RAdd(Linspace(Rat(0), l_s, source_points_factor, k), x)

\* x_s_points = np.linspace(-l_s/2, l_s/2, source_points_factor) + x
x_s_points(k) ==
    RAdd(Linspace(RNeg(Half(l_s)), Half(l_s), source_points_factor, k), x)

\* y_s_points = np.linspace(-h_s/2, h_s/2, source_points_factor) + y
y_s_points(k) ==
    RAdd(Linspace(RNeg(Half(h_s)), Half(h_s), source_points_factor, k), y)

num_source_points == source_points_factor * source_points_factor

\* power_per_point = p / num_source_points; I_i = power_per_point / np.pi
ExtIntensity(P_source, num) == RDiv(Rat(P_source), Rat(num))

SmallDistanceFactor == 10    \* max(l_s, h_s) * 10
SizeCoefficient == <<1, 10>> \* 0.1

\* the test with <= in place of <
NeedsCorrection_Leq(L_sr, ls, hs) ==
    RLeq(L_sr, RMul(RMax(ls, hs), Rat(SmallDistanceFactor)))

\* if L_sr < max(self.l_s, self.h_s) * 10
NeedsCorrection(L_sr, ls, hs) ==
    RLess(L_sr, RMul(RMax(ls, hs), Rat(SmallDistanceFactor)))

\* the correction with its operands swapped: 0.1 * (max / L_sr) - 1.0
size_correction_Swapped(L_sr, ls, hs) ==
    RSub(RMul(SizeCoefficient, RDiv(RMax(ls, hs), L_sr)), Rat(1))

\* size_correction = 1.0 + 0.1 * (max(self.l_s, self.h_s) / L_sr)
size_correction(L_sr, ls, hs) ==
    RAdd(Rat(1), RMul(SizeCoefficient, RDiv(RMax(ls, hs), L_sr)))

\* one pass of the loops of calculate_irradiance_optimized
Opt_Accumulate ==
    /\ variant = "incupsulation" /\ pc = "loop"
    /\ result' = [c \in DOMAIN result |->
                      result[c] (+) SetToBag({
                          OptTerm(x_r(c[2]), y_r(c[1]), x_s_points(i),
                              y_s_points(j), R,
                              ExtIntensity(p, num_source_points))})]
    /\ i' = NextIJ(source_points_factor, source_points_factor)[1]
    /\ j' = NextIJ(source_points_factor, source_points_factor)[2]
    /\ pc' = IF i' < source_points_factor THEN "loop" ELSE "post"
    /\ UNCHANGED <<extVars, variant, paramVars, call, saved, outcome, pairVars, mainVars>>

\* the small-distance correction and `return result`
Ext_CorrectAndReturn ==
    /\ variant = "incupsulation" /\ pc = "post"
    /\ result' = IF NeedsCorrection(R, l_s, h_s)
                 THEN ScaleField(result, size_correction(R, l_s, h_s))
                 ELSE result
    /\ pc' = "done"
    /\ outcome' = "field"
    /\ UNCHANGED <<extVars, variant, paramVars, i, j, call, saved, pairVars, mainVars>>

\* the solver is called again with the same arguments but twice the power
CallWithDoubledPower ==
    /\ variant \in {"main2", "interactive_app", "incupsulation"}
    /\ pc = "done" /\ call = 1
    /\ saved' = result
    /\ p' = 2 * p
    /\ call' = 2
    /\ result' = ZeroField(accuracy)
    /\ i' = 0 /\ j' = 0
    /\ pc' = "loop"
    /\ outcome' = "none"
    /\ UNCHANGED <<extVars, variant, l_r, h_r, x, y, R, l_s, h_s, accuracy,
                   pairVars, mainVars>>

Sides == {Rat(n) : n \in 1..MaxDim}

\* the placements tried: the receiver's corner and the receiver's centre
Placements(lr, hr) == {<<Rat(0), Rat(0)>>, <<Half(lr), Half(hr)>>}

\* the standoffs tried: below the small-distance threshold, and on it
Standoffs(ls, hs) == {Rat(1), RMul(RMax(ls, hs), Rat(SmallDistanceFactor))}

InitField ==
    /\ variant \in {"main2", "interactive_app", "incupsulation"}
    /\ p \in {0, MaxP}
    /\ accuracy \in 2..MaxAcc
    /\ l_r \in Sides /\ h_r \in {l_r, Rat(MaxDim)}
    /\ l_s \in Sides /\ h_s \in Sides
    /\ \E pl \in Placements(l_r, h_r) : x = pl[1] /\ y = pl[2]
    /\ R \in Standoffs(l_s, h_s)
    /\ pc = "loop" /\ i = 0 /\ j = 0
    /\ result = ZeroField(accuracy)
    /\ call = 1 /\ saved = <<>> /\ outcome = "none"
    /\ IdlePair /\ IdleMain /\ IdleExt

NextField ==
    \/ Main2_Accumulate
    \/ Main2_Return
    \/ IApp_Accumulate
    \/ IApp_Return
    \/ Opt_Accumulate
    \/ Ext_CorrectAndReturn
    \/ CallWithDoubledPower

SpecField == InitField /\ [][NextField]_vars

(***************************************************************************)
(* Properties of the array solvers.                                        *)
(***************************************************************************)
ArrayVariants == {"main2", "interactive_app", "incupsulation"}

\* the number of source samples a call sums into each cell
SamplesPerCell ==
    IF variant = "incupsulation" THEN num_source_points
    ELSE accuracy * accuracy

CellNonNegative(B) == \A t \in BagToSet(B) : t[1] >= 0

\* C5: for valid input (sides > 0, L > 0, P >= 0, accuracy >= 2) every cell
\* of the field is >= 0 at every point of the accumulation, after the
\* small-distance correction and after the division by 0.005: no addend of
\* any cell is ever negative.
C5_NonNegative ==
    variant \in ArrayVariants =>
        \A c \in DOMAIN result : CellNonNegative(result[c])

C5_Witness ==
    /\ variant = "incupsulation" /\ pc = "done" /\ p > 0
    /\ NeedsCorrection(R, l_s, h_s)
    /\ \A c \in DOMAIN result :
          /\ BagCardinality(result[c]) = SamplesPerCell
          /\ \A t \in BagToSet(result[c]) : t[1] > 0

\* C6: with everything else fixed, the field computed with power 2P is,
\* cell by cell, exactly twice the field computed with power P.
C6_LinearInPower ==
    (variant \in ArrayVariants /\ call = 2 /\ pc = "done") =>
        \A c \in DOMAIN result : result[c] = ScaleCell(saved[c], Rat(2))

C6_Witness ==
    /\ variant = "incupsulation" /\ call = 2 /\ pc = "done" /\ p > 0
    /\ NeedsCorrection(R, l_s, h_s)
    /\ \A c \in DOMAIN result :
          /\ BagCardinality(result[c]) = SamplesPerCell
          /\ result[c] = ScaleCell(saved[c], Rat(2))
          /\ result[c] # saved[c]

\* C7: in calculate_irradiance_extended_model, with the source at the
\* receiver's centre (x = l_r/2, y = h_r/2), l_s = h_s and l_r = h_r, the
\* field is invariant under a 90 degree rotation about the centre:
\* result[r][c] = result[c][N-1-r].
C7_RotationalSymmetry ==
    (/\ variant = "incupsulation" /\ pc = "done"
     /\ x = Half(l_r) /\ y = Half(h_r) /\ l_s = h_s /\ l_r = h_r) =>
        \A c \in DOMAIN result :
            result[c] = result[<<c[2], accuracy - 1 - c[1]>>]

C7_Witness ==
    /\ variant = "incupsulation" /\ pc = "done" /\ p > 0 /\ accuracy > 2
    /\ x = Half(l_r) /\ y = Half(h_r) /\ l_s = h_s /\ l_r = h_r
    /\ \A c \in DOMAIN result : BagCardinality(result[c]) = SamplesPerCell
    /\ result[<<0, 0>>] = result[<<0, accuracy - 1>>]
    /\ result[<<0, 0>>] # result[<<1, 1>>]

\* C9: calculate_irradiance_extended_model multiplies every cell of the
\* accumulated field by 1 + 0.1 * max(l_s, h_s)/L exactly when
\* L < 10 * max(l_s, h_s), and returns it unscaled when
\* L >= 10 * max(l_s, h_s).
C9_SmallDistanceCorrection ==
    [][(variant = "incupsulation" /\ pc = "post" /\ pc' = "done") =>
          LET m == RMax(l_s, h_s)
              f == RAdd(Rat(1), RDiv(m, RMul(Rat(10), R)))
          IN  IF RLess(R, RMul(Rat(10), m))
              THEN \A c \in DOMAIN result :
                      /\ BagCardinality(result'[c]) = BagCardinality(result[c])
                      /\ \A t \in BagToSet(result[c]) :
                            CopiesIn(RMul(f, t), result'[c]) = CopiesIn(t, result[c])
              ELSE result' = result]_vars

C9_Witness ==
    /\ variant = "incupsulation" /\ pc = "done" /\ p > 0
    /\ R = RMul(Rat(10), RMax(l_s, h_s))
    /\ l_s # h_s
    /\ \A c \in DOMAIN result : BagCardinality(result[c]) = SamplesPerCell

(***************************************************************************)
(* The shape of the returned field, for all four variants.                 *)
(***************************************************************************)
InitShape == InitMain \/ InitField

NextShape == NextMain \/ NextField

SpecShape == InitShape /\ [][NextShape]_vars

\* C4: the returned field has accuracy x accuracy cells and every cell has
\* been assigned the value accumulated for its own receiver point: in
\* main.ps_for_all no cell keeps its initial 0 and each holds the sum of the
\* coroutine created for its indices; in the array solvers every cell has
\* received one addend per source sample.
C4_EveryCellAssigned ==
    pc = "done" =>
        IF variant = "main"
        THEN /\ DOMAIN result = 0..(accuracy - 1)
             /\ \A a \in DOMAIN result :
                  /\ DOMAIN result[a] = 0..(accuracy - 1)
                  /\ \A b \in DOMAIN result[a] :
                       /\ result[a][b] # InitialZero
                       /\ \E k \in 1..Len(tasks_list) :
                            /\ tasks_list[k].xi = a /\ tasks_list[k].yi = b
                            /\ result[a][b].x = tasks_list[k].x
                            /\ result[a][b].y = tasks_list[k].y
        ELSE /\ DOMAIN result = Cells(accuracy)
             /\ \A c \in DOMAIN result :
                  BagCardinality(result[c]) = SamplesPerCell

C4_Witness ==
    /\ variant = "main" /\ pc = "done" /\ accuracy > 2
    /\ Len(tasks_list) = accuracy * accuracy
    /\ \A a \in DOMAIN result : \A b \in DOMAIN result[a] :
          result[a][b] # InitialZero

(***************************************************************************)
(* Calls with arguments outside the documented preconditions.  The array   *)
(* solvers contain no check of their arguments: the calls below run the    *)
(* same code.  (L = 0 and accuracy = 0 make the floating-point division    *)
(* produce NaN or raise ZeroDivisionError; they are not drawn here.)       *)
(***************************************************************************)
InitEntry ==
    /\ variant \in ArrayVariants
    /\ p = 1
    /\ accuracy \in 1..2
    /\ l_r \in {Rat(n) : n \in -1..1} /\ h_r \in {Rat(n) : n \in -1..1}
    /\ l_s \in {Rat(n) : n \in -1..1} /\ h_s \in {Rat(n) : n \in -1..1}
    /\ x = Rat(0) /\ y = Rat(0)
    /\ R \in {Rat(-1), Rat(1)}
    /\ pc = "loop" /\ i = 0 /\ j = 0
    /\ result = ZeroField(accuracy)
    /\ call = 1 /\ saved = <<>> /\ outcome = "none"
    /\ IdlePair /\ IdleMain /\ IdleExt

NextEntry ==
    \/ Main2_Accumulate
    \/ Main2_Return
    \/ IApp_Accumulate
    \/ IApp_Return
    \/ Opt_Accumulate
    \/ Ext_CorrectAndReturn

SpecEntry == InitEntry /\ [][NextEntry]_vars

Positive(q) == q[1] > 0

\* the errors the documented preconditions call for
ExpectedErrors ==
    (IF Positive(l_r) /\ Positive(h_r) /\ Positive(l_s) /\ Positive(h_s)
     THEN {} ELSE {"InvalidGeometry"})
    \cup (IF accuracy >= 2 THEN {} ELSE {"InvalidGrid"})
    \cup (IF Positive(R) THEN {} ELSE {"InvalidDistance"})

\* C10: a call with an invalid precondition ends in an error outcome and
\* produces no field: InvalidGeometry when a dimension is <= 0, InvalidGrid
\* when accuracy < 2, InvalidDistance when L <= 0.
C10_InvalidInputRejected ==
    (variant \in ArrayVariants /\ pc = "done" /\ ExpectedErrors # {}) =>
        outcome \in ExpectedErrors

(***************************************************************************)
(* incupsulation.py: calculate_irradiance_optimized under                  *)
(* @jit(nopython=True, parallel=True).  The outer loop is a prange and     *)
(* `result` is updated in its body by `result += irradiance` only, which   *)
(* makes it a reduction variable of the loop: the iterations i are divided *)
(* among the workers, each worker accumulates into a private copy of       *)
(* `result` that starts at the identity of +, and the private copies are   *)
(* added to the initial value when the loop ends.  dx, dy, distance_sq,    *)
(* cos_alpha and irradiance are temporaries of one iteration.  The         *)
(* function is called here with source arrays of any length.               *)
(***************************************************************************)
MaxWorkers == 2     \* the workers of the parallel loop: 1..MaxWorkers
MaxSrc     == 3     \* x_s_points has up to MaxSrc entries

Workers == 1..MaxWorkers

num_x_s == Len(src.xs)
num_y_s == Len(src.ys)

\* the array `irradiance` of the pass (a, b) of the loops
Irradiance(a, b) ==
    [c \in Cells(accuracy) |->
        OptTerm(x_r(c[2]), y_r(c[1]), src.xs[a + 1], src.ys[b + 1], R,
                ExtIntensity(p, num_x_s * num_y_s))]

\* field += irr
FieldPlusTerm(field, irr) ==
    [c \in DOMAIN field |-> field[c] (+) SetToBag({irr[c]})]

\* field + other
FieldPlus(field, other) == [c \in DOMAIN field |-> field[c] (+) other[c]]

\* the outer indices given to worker w, in increasing order
RECURSIVE OwnedFrom(_, _)
OwnedFrom(w, a) ==
    IF a >= num_x_s THEN <<>>
    ELSE (IF chunk[a] = w THEN <<a>> ELSE <<>>) \o OwnedFrom(w, a + 1)

Owned(w) == OwnedFrom(w, 0)

\* the k-th pass (k = 0, 1, ...) of worker w: for i in its chunk, for j in
\* range(num_y_s)
WorkerPass(w, k) == <<Owned(w)[(k \div num_y_s) + 1], k % num_y_s>>

WorkerPasses(w) == Len(Owned(w)) * num_y_s

\* a reduction that keeps the copy of one worker only
RECURSIVE ReduceFrom_LastOnly(_, _, _)
ReduceFrom_LastOnly(field, bufs, w) ==
    IF w > MaxWorkers THEN field
    ELSE ReduceFrom_LastOnly(bufs[w], bufs, w + 1)

\* the end of the prange: the private copies are added to `result`
RECURSIVE ReduceFrom(_, _, _)
ReduceFrom(field, bufs, w) ==
    IF w > MaxWorkers THEN field
    ELSE ReduceFrom(FieldPlus(field, bufs[w]), bufs, w + 1)

InitPar ==
    /\ variant = "incupsulation"
    /\ p = 1
    /\ accuracy = 2
    /\ l_r = Rat(1) /\ h_r = Rat(1)
    /\ l_s \in Sides /\ h_s = Rat(1)
    /\ x = Rat(0) /\ y = Rat(0)
    /\ R = Rat(1)
    /\ \E n \in 1..MaxSrc, m \in 1..2 :
          src = [xs |-> [k \in 1..n |->
                            RAdd(Linspace(RNeg(Half(l_s)), Half(l_s), n, k - 1), x)],
                 ys |-> [k \in 1..m |->
                            RAdd(Linspace(RNeg(Half(h_s)), Half(h_s), m, k - 1), y)]]
    /\ chunk \in [0..(Len(src.xs) - 1) -> Workers]
    /\ priv = [w \in Workers |-> ZeroField(accuracy)]
    /\ wdone = [w \in Workers |-> 0]
    /\ pc = "par" /\ i = 0 /\ j = 0
    /\ result = ZeroField(accuracy)
    /\ call = 1 /\ saved = <<>> /\ outcome = "none"
    /\ IdlePair /\ IdleMain /\ IdleNorm /\ IdleSched /\ IdleGui

\* worker w makes the next pass of its part of the loops
Par_WorkerPass(w) ==
    /\ variant = "incupsulation" /\ pc = "par"
    /\ wdone[w] < WorkerPasses(w)
    /\ LET ab == WorkerPass(w, wdone[w])
       IN  priv' = [priv EXCEPT
                       ![w] = FieldPlusTerm(@, Irradiance(ab[1], ab[2]))]
    /\ wdone' = [wdone EXCEPT ![w] = @ + 1]
    /\ UNCHANGED <<variant, paramVars, fieldVars, pairVars, mainVars,
                   src, chunk, notParVars>>

\* every worker has finished: the reduction, and `return result`
Par_ReduceAndReturn ==
    /\ variant = "incupsulation" /\ pc = "par"
    /\ \A w \in Workers : wdone[w] = WorkerPasses(w)
    /\ result' = ReduceFrom(result, priv, 1)
    /\ pc' = "done"
    /\ outcome' = "field"
    /\ UNCHANGED <<variant, paramVars, i, j, call, saved, pairVars, mainVars,
                   extVars>>

NextPar ==
    \/ \E w \in Workers : Par_WorkerPass(w)
    \/ Par_ReduceAndReturn

SpecPar == InitPar /\ [][NextPar]_vars

\* the field of the loops run sequentially: for i: for j: result += ...
RECURSIVE SequentialFrom(_, _)
SequentialFrom(field, k) ==
    IF k >= num_x_s * num_y_s THEN field
    ELSE SequentialFrom(
             FieldPlusTerm(field, Irradiance(k \div num_y_s, k % num_y_s)),
             k + 1)

\* C11: for every partition of the prange over i among the workers and
\* every interleaving of their accumulations, the returned field is the sum
\* over all (i, j) source samples computed sequentially: no contribution is
\* lost or counted twice.
C11_ParallelSumIsSequential ==
    (variant = "incupsulation" /\ pc = "done" /\ src # <<>>) =>
        result = SequentialFrom(ZeroField(accuracy), 0)

C11_Witness ==
    /\ variant = "incupsulation" /\ pc = "done" /\ src # <<>>
    /\ num_x_s = MaxSrc /\ num_y_s = 2
    /\ \A w \in Workers : WorkerPasses(w) > 0
    /\ \A c \in DOMAIN result :
          BagCardinality(result[c]) = num_x_s * num_y_s
    /\ result = SequentialFrom(ZeroField(accuracy), 0)

(***************************************************************************)
(* The accumulation loops of main2.py and interactive_app.py, watched      *)
(* between their passes.                                                   *)
(***************************************************************************)
InitAccum ==
    /\ variant \in {"main2", "interactive_app"}
    /\ p \in {0, MaxP}
    /\ accuracy \in 2..MaxAcc
    /\ l_r \in Sides /\ h_r = Rat(MaxDim)
    /\ l_s \in Sides /\ h_s = Rat(1)
    /\ \E pl \in Placements(l_r, h_r) : x = pl[1] /\ y = pl[2]
    /\ R = Rat(1)
    /\ pc = "loop" /\ i = 0 /\ j = 0
    /\ result = ZeroField(accuracy)
    /\ call = 1 /\ saved = <<>> /\ outcome = "none"
    /\ IdlePair /\ IdleMain /\ IdleExt

NextAccum ==
    \/ Main2_Accumulate
    \/ Main2_Return
    \/ IApp_Accumulate
    \/ IApp_Return

SpecAccum == InitAccum /\ [][NextAccum]_vars

\* the passes of the loops completed so far
PassesDone == i * accuracy + j

\* the contribution to cell c of the n-th source sample (n = 0, 1, ...) in
\* the order the loops of `variant` visit the samples
NthContribution(c, n) ==
    LET a == n \div accuracy
        b == n % accuracy
    IN  IF variant = "main2"
        THEN Main2Term(x_r(c[2]), y_r(c[1]), x_s(a), y_s(b), R,
                       Intensity(p, accuracy))
        ELSE IAppTerm(x_r(c[2]), y_r(c[1]), x_s(b), y_s(a), R,
                      Intensity(p, accuracy))

\* the sum of the contributions of the first k source samples to cell c
RECURSIVE FirstContributions(_, _)
FirstContributions(c, k) ==
    IF k = 0 THEN EmptyBag
    ELSE FirstContributions(c, k - 1) (+) SetToBag({NthContribution(c, k - 1)})

\* after k completed passes every cell is the sum of the first k samples
PartialSumsValid ==
    (variant \in {"main2", "interactive_app"} /\ pc \in {"loop", "post"}) =>
        \A c \in DOMAIN result :
            result[c] = FirstContributions(c, PassesDone)

\* a pass adds one non-negative addend to every cell and removes none
PassOnlyAdds ==
    (variant \in {"main2", "interactive_app"} /\ pc = "loop") =>
        \A c \in DOMAIN result :
            /\ result[c] \sqsubseteq result'[c]
            /\ BagCardinality(result'[c]) = BagCardinality(result[c]) + 1
            /\ CellNonNegative(result'[c] (-) result[c])

\* C12: during the accumulation loop of main2 / interactive_app a cell's
\* partial value never decreases from one source-sample pass to the next,
\* and after k completed passes it is the sum of exactly the first k
\* samples' contributions; a computation stopped between passes holds a
\* valid partial sum.
C12_PartialSumsMonotone == []PartialSumsValid /\ [][PassOnlyAdds]_vars

C12_Witness ==
    /\ variant = "interactive_app" /\ pc = "loop" /\ p > 0
    /\ PassesDone > accuracy
    /\ \A c \in DOMAIN result :
          /\ BagCardinality(result[c]) = PassesDone
          /\ \A t \in BagToSet(result[c]) : t[1] > 0

(***************************************************************************)
(* The colour scale of the displayed field: main.main, main2.main_         *)
(* vectorized and interactive_app.update_field contain the same four-way   *)
(* case split on vmin = np.min(result_array), vmax = np.max(result_array)  *)
(* and construct TwoSlopeNorm(vmin=..., vcenter=1.0, vmax=...).  The two   *)
(* floats are taken here from a grid of rationals around 1.                *)
(***************************************************************************)
MaxVal == 3     \* the field's min and max: 0..MaxVal and 1/2, 3/2, 5/2

FieldValues == {<<k, 2>> : k \in {1, 3, 5}} \cup {Rat(k) : k \in 0..MaxVal}

DisplayVariants == {"main", "main2", "interactive_app"}

\* a symmetric partner computed as 1 - vmin
vmax_sym_FromOne(lo) == RSub(Rat(1), lo)

\* vmax_sym = 2 - vmin
vmax_sym(lo) == RSub(Rat(2), lo)

\* vmin_sym = 2 - vmax
vmin_sym(hi) == RSub(Rat(2), hi)

\* the branch of `if vmin <= 1 <= vmax: ... elif vmax < 1: ... elif vmin > 1:
\* ... else: ...` taken, and the arguments it passes to TwoSlopeNorm
NormArguments(lo, hi) ==
    IF RLeq(lo, Rat(1)) /\ RLeq(Rat(1), hi)
    THEN [branch |-> 1, vmin |-> lo, vcenter |-> Rat(1), vmax |-> hi]
    ELSE IF RLess(hi, Rat(1))
    THEN [branch |-> 2, vmin |-> lo, vcenter |-> Rat(1), vmax |-> vmax_sym(lo)]
    ELSE IF RLess(Rat(1), lo)
    THEN [branch |-> 3, vmin |-> vmin_sym(hi), vcenter |-> Rat(1), vmax |-> hi]
    ELSE [branch |-> 4, vmin |-> lo, vcenter |-> Rat(1), vmax |-> hi]

\* matplotlib.colors.TwoSlopeNorm.__init__ raises ValueError ("vmin,
\* vcenter, and vmax must be in ascending order") when vcenter >= vmax or
\* vcenter <= vmin
TwoSlopeNorm(a) ==
    IF RLeq(a.vmax, a.vcenter) \/ RLeq(a.vcenter, a.vmin)
    THEN "ValueError" ELSE "norm"

InitNorm ==
    /\ variant \in DisplayVariants
    /\ vmin \in FieldValues /\ vmax \in FieldValues /\ RLeq(vmin, vmax)
    /\ norm = <<>>
    /\ p = 0 /\ l_r = 0 /\ h_r = 0 /\ x = 0 /\ y = 0 /\ R = 0
    /\ l_s = 0 /\ h_s = 0 /\ accuracy = 0
    /\ pc = "display" /\ i = 0 /\ j = 0 /\ result = <<>>
    /\ call = 0 /\ saved = <<>> /\ outcome = "none"
    /\ IdlePair /\ IdleMain /\ IdlePar /\ IdleSched /\ IdleGui

\* main.main, lines 95-117
Main_Normalize ==
    /\ variant = "main" /\ pc = "display"
    /\ norm' = NormArguments(vmin, vmax)
    /\ outcome' = TwoSlopeNorm(norm')
    /\ pc' = "shown"
    /\ UNCHANGED <<variant, paramVars, i, j, result, call, saved, pairVars,
                   mainVars, notNormVars, vmin, vmax>>

\* main2.main_vectorized, lines 55-67
Main2_Normalize ==
    /\ variant = "main2" /\ pc = "display"
    /\ norm' = NormArguments(vmin, vmax)
    /\ outcome' = TwoSlopeNorm(norm')
    /\ pc' = "shown"
    /\ UNCHANGED <<variant, paramVars, i, j, result, call, saved, pairVars,
                   mainVars, notNormVars, vmin, vmax>>

\* interactive_app.update_field, lines 227-242
IApp_Normalize ==
    /\ variant = "interactive_app" /\ pc = "display"
    /\ norm' = NormArguments(vmin, vmax)
    /\ outcome' = TwoSlopeNorm(norm')
    /\ pc' = "shown"
    /\ UNCHANGED <<variant, paramVars, i, j, result, call, saved, pairVars,
                   mainVars, notNormVars, vmin, vmax>>

NextNorm ==
    \/ Main_Normalize
    \/ Main2_Normalize
    \/ IApp_Normalize

SpecNorm == InitNorm /\ [][NextNorm]_vars

Normalized == variant \in DisplayVariants /\ pc = "shown"

\* C13: the colour-scale bounds chosen contain the whole data range
\* [min, max] and the neutral value 1.0, and whenever 1.0 lies outside
\* [min, max] they are symmetric about 1.0: 1 - vmin' = vmax' - 1.
C13_BoundsContainAndSymmetric ==
    Normalized =>
        /\ RLeq(norm.vmin, vmin) /\ RLeq(vmax, norm.vmax)
        /\ RLeq(norm.vmin, Rat(1)) /\ RLeq(Rat(1), norm.vmax)
        /\ (RLess(vmax, Rat(1)) \/ RLess(Rat(1), vmin)) =>
              RSub(Rat(1), norm.vmin) = RSub(norm.vmax, Rat(1))

C13_Witness ==
    /\ Normalized /\ variant = "interactive_app"
    /\ RLess(vmin, vmax) /\ RLess(vmax, Rat(1))
    /\ norm.branch = 2
    /\ norm.vmin = vmin /\ RLess(vmax, norm.vmax)
    /\ RSub(Rat(1), norm.vmin) = RSub(norm.vmax, Rat(1))

\* C20: the bounds passed to TwoSlopeNorm with vcenter = 1.0 are strictly
\* ordered, vmin' < 1.0 < vmax', for every field (also when the minimum or
\* the maximum is exactly 1.0, and for uniform fields), so constructing the
\* normalization never fails, and the final `else` branch is never taken.
C20_StrictlyOrderedBounds ==
    Normalized =>
        /\ RLess(norm.vmin, Rat(1)) /\ RLess(Rat(1), norm.vmax)
        /\ outcome # "ValueError"
        /\ norm.branch # 4

(***************************************************************************)
(* main2.calculate_irradiance_vectorized and interactive_app.              *)
(* calculate_irradiance_vectorized called one after the other with the     *)
(* same arguments.                                                         *)
(***************************************************************************)
InitEquiv == InitAccum /\ variant = "main2"

\* main2 has returned: its field is kept and interactive_app's method is
\* called with the same p, l_r, h_r, x, y, R, l_s, h_s, accuracy
CallOtherVariant ==
    /\ variant = "main2" /\ pc = "done" /\ call = 1
    /\ saved' = result
    /\ variant' = "interactive_app"
    /\ call' = 2
    /\ result' = ZeroField(accuracy)
    /\ i' = 0 /\ j' = 0
    /\ pc' = "loop"
    /\ outcome' = "none"
    /\ UNCHANGED <<paramVars, pairVars, mainVars, extVars>>

NextEquiv ==
    \/ Main2_Accumulate
    \/ Main2_Return
    \/ CallOtherVariant
    \/ IApp_Accumulate
    \/ IApp_Return

SpecEquiv == InitEquiv /\ [][NextEquiv]_vars

\* C19: main2.calculate_irradiance_vectorized and interactive_app.
\* calculate_irradiance_vectorized return the same field for the same
\* inputs: indexing the source samples as (x_s[i], y_s[j]) in one and as
\* (x_s[j], y_s[i]) in the other visits the same match^2 source points.
C19_SameFieldBothVariants ==
    (variant = "interactive_app" /\ call = 2 /\ pc = "done") =>
        /\ DOMAIN result = DOMAIN saved
        /\ \A c \in DOMAIN result : result[c] = saved[c]

C19_Witness ==
    /\ variant = "interactive_app" /\ call = 2 /\ pc = "done"
    /\ p > 0 /\ accuracy > 2
    /\ l_s # h_s /\ x # y
    /\ \A c \in DOMAIN result :
          /\ BagCardinality(result[c]) = accuracy * accuracy
          /\ result[c] = saved[c]
    /\ result[<<0, 1>>] # result[<<1, 0>>]

(***************************************************************************)
(* main.py under the event loop.  `await task` on a ps_for_target          *)
(* coroutine runs its body in the awaiting task: the ps_from_point         *)
(* coroutines are created, asyncio.gather wraps each of them in a Task,    *)
(* the event loop runs the Tasks (a ps_from_point body contains no await:  *)
(* it runs to its end once started), gather delivers their results in the  *)
(* order of its arguments and the sum is returned.  The order in which the *)
(* loop runs the Tasks is left open.  The result of a ps_from_point call   *)
(* is recorded as the sample (xs, ys) it was called with.                  *)
(***************************************************************************)
MaxSchedAcc == 2     \* accuracy ranges over 2..MaxSchedAcc under the event loop

InitSched ==
    /\ variant = "main"
    /\ p = 1
    /\ accuracy \in 2..MaxSchedAcc
    /\ R = 1
    /\ x = DecZero /\ y = DecZero
    /\ l_r \in {DecOfInt(1), DecOfInt(2)} /\ h_r = DecOfInt(1)
    /\ l_s \in {DecOfInt(1), DecOfInt(2)} /\ h_s = DecOfInt(2)
    /\ pc = "outer" /\ i = 0 /\ j = 0
    /\ result = ZeroLists(accuracy)
    /\ call = 1 /\ saved = <<>> /\ outcome = "none"
    /\ x_cur = DecZero /\ xi = 0 /\ y_cur = DecZero /\ yi = 0
    /\ tasks_list = <<>> /\ awaited = 0
    /\ gathered = <<>> /\ cell_awaits = <<>> /\ reordered = FALSE
    /\ IdlePair /\ IdlePar /\ IdleNorm /\ IdleGui

NextSched ==
    \/ PsForAll_OuterEnter
    \/ PsForAll_InnerPass
    \/ PsForAll_InnerExit
    \/ Sched_LoopsDone
    \/ Sched_AwaitStart
    \/ \E k \in 1..Len(gathered) : Sched_RunGathered(k)
    \/ Sched_AwaitFinish
    \/ PsForAll_Return

SpecSched == InitSched /\ [][NextSched]_vars

\* the value of x after k passes of `x += step`, starting from Decimal('0')
RECURSIVE Stepped(_, _)
Stepped(step, k) == IF k = 0 THEN DecZero ELSE DecAdd(Stepped(step, k - 1), step)

\* each coroutine of tasks_list has been awaited once if its turn has come
\* and not at all otherwise; a gathered task runs at most once, and all of
\* them have run once when gather returns; no two coroutines share a cell
AwaitCounts ==
    (variant = "main" /\ cell_awaits # <<>>) =>
        /\ \A k \in 1..Len(tasks_list) :
              cell_awaits[k] = (IF k <= awaited \/ (k = awaited + 1 /\ pc = "gather")
                                THEN 1 ELSE 0)
        /\ \A k \in 1..Len(gathered) :
              /\ gathered[k].runs <= 1
              /\ pc # "gather" => gathered[k].runs = 1
        /\ \A k, m \in 1..Len(tasks_list) :
              (tasks_list[k].xi = tasks_list[m].xi
                  /\ tasks_list[k].yi = tasks_list[m].yi) => k = m
        /\ pc = "done" =>
              \A k \in 1..Len(tasks_list) :
                 result[tasks_list[k].xi][tasks_list[k].yi] # InitialZero

\* when an `await task` completes, the cell of the task's indices, and no
\* other, receives the sum of ps_for_target for the point of those indices
StoresOwnSum ==
    (variant = "main" /\ pc = "gather" /\ pc' = "await") =>
        LET t == tasks_list[awaited + 1]
        IN  /\ t.x = Stepped(x_step_r, t.xi) /\ t.y = Stepped(y_step_r, t.yi)
            /\ result' = [result EXCEPT ![t.xi][t.yi] =
                             ps_for_target(Stepped(x_step_r, t.xi),
                                           Stepped(y_step_r, t.yi),
                                           l_s, h_s, xstep_s, ystep_s)]

\* C18: every per-cell coroutine and every per-sample coroutine is awaited
\* exactly once, and the value stored in result[xi][yi] is the sum returned
\* by the coroutine created for the receiver point of the indices (xi, yi),
\* i.e. the point reached by xi steps of l_r/match and yi steps of
\* h_r/match; no cell receives another cell's sum, whatever order the event
\* loop runs the gathered tasks in.
C18_EachCoroutineAwaitedOnce == []AwaitCounts /\ [][StoresOwnSum]_vars

C18_Witness ==
    /\ variant = "main" /\ pc = "done" /\ reordered
    /\ l_r # h_r
    /\ Len(tasks_list) = accuracy * accuracy
    /\ \A k \in 1..Len(tasks_list) : cell_awaits[k] = 1
    /\ \A a \in DOMAIN result : \A b \in DOMAIN result[a] :
          result[a][b] # InitialZero
    /\ result[0][1] # result[1][0]

(***************************************************************************)
(* incupsulation.InteractiveIrradianceApp: the widgets, the callbacks and  *)
(* update().  The parameters self.p ... self.accuracy are the variables    *)
(* p ... accuracy; lengths are rationals, p and accuracy are integers.     *)
(***************************************************************************)
RAbs(a) == <<Abs(a[1]), a[2]>>

\* int(v) of a rational v >= 0; a whole number is left as it is
Whole(v) == v[1] \div v[2]

\* Python's round(q) of a rational q >= 0: to nearest, ties to even
Round(q) ==
    LET fl == q[1] \div q[2]
        twice == 2 * (q[1] % q[2])
    IN  IF twice < q[2] THEN fl
        ELSE IF twice > q[2] THEN fl + 1
        ELSE IF fl % 2 = 0 THEN fl ELSE fl + 1

SliderNames ==
    {"slider_power", "slider_x", "slider_y", "slider_z", "slider_ls",
     "slider_hs", "slider_lr", "slider_hr", "slider_acc"}

\* sliders_config: (label, name, vmin, vmax, valinit, valstep) without the
\* label and without valinit, which is the attribute read at construction
sliders_config ==
    [slider_power |-> [vmin |-> Rat(1), vmax |-> Rat(5000), valstep |-> Rat(10)],
     slider_x     |-> [vmin |-> Rat(0), vmax |-> Rat(200), valstep |-> Rat(1)],
     slider_y     |-> [vmin |-> Rat(0), vmax |-> Rat(200), valstep |-> Rat(1)],
     slider_z     |-> [vmin |-> Rat(200), vmax |-> Rat(1000), valstep |-> Rat(10)],
     slider_ls    |-> [vmin |-> <<1, 10>>, vmax |-> Rat(20), valstep |-> <<1, 10>>],
     slider_hs    |-> [vmin |-> <<1, 10>>, vmax |-> Rat(20), valstep |-> <<1, 10>>],
     slider_lr    |-> [vmin |-> Rat(10), vmax |-> Rat(500), valstep |-> Rat(10)],
     slider_hr    |-> [vmin |-> Rat(10), vmax |-> Rat(500), valstep |-> Rat(10)],
     slider_acc   |-> [vmin |-> Rat(20), vmax |-> Rat(80), valstep |-> Rat(5)]]

\* Slider._stepped_value: valmin + round((val - valmin) / valstep) * valstep
stepped_value(cfg, val) ==
    RAdd(cfg.vmin,
         RMul(Rat(Round(RDiv(RSub(val, cfg.vmin), cfg.valstep))), cfg.valstep))

\* Slider._value_in_bounds: the stepped value, clipped to [valmin, valmax]
value_in_bounds(cfg, val) ==
    LET v == stepped_value(cfg, val)
    IN  IF RLeq(v, cfg.vmin) THEN cfg.vmin
        ELSE IF RLeq(cfg.vmax, v) THEN cfg.vmax
        ELSE v

\* the parameters assigned by __init__, in the order of sliders_config
ConstructorDefaults ==
    [slider_power |-> Rat(500), slider_x |-> Rat(50), slider_y |-> Rat(50),
     slider_z |-> Rat(500), slider_ls |-> Rat(1), slider_hs |-> Rat(1),
     slider_lr |-> Rat(100), slider_hr |-> Rat(100), slider_acc |-> Rat(30)]

\* Slider.__init__: valinit = self._value_in_bounds(valinit); self.val = valinit
valinit ==
    [n \in SliderNames |->
        value_in_bounds(sliders_config[n], ConstructorDefaults[n])]

\* Slider(ax_gamma, 'Gamma', 0.1, 2.0, valinit=0.5): no valstep, so the
\* initial value is kept as given
GammaInit == <<1, 2>>

\* RadioButtons(ax_radio, ['linear', 'log', 'power'])
NormLabels == <<"linear", "log", "power">>

\* the attributes __init__, setup_ui, create_sliders and
\* create_control_buttons assign on the instance
Attributes ==
    {"p", "l_r", "h_r", "x", "y", "R", "l_s", "h_s", "accuracy",
     "normalization_type", "power_gamma", "min_irradiance", "max_irradiance",
     "result_array", "calc_time", "fig", "ax_layout", "ax_field", "sliders",
     "radio_norm", "slider_gamma", "button_reset", "button_fast"}

\* The values a user drags each slider to: positions on the slider's grid.
SliderPositions ==
    [slider_power |-> {Rat(501), Rat(1001)},
     slider_x     |-> {Rat(50)},
     slider_y     |-> {Rat(50)},
     slider_z     |-> {Rat(200), Rat(500)},
     slider_ls    |-> {Rat(1), Rat(20)},
     slider_hs    |-> {Rat(1), Rat(20)},
     slider_lr    |-> {Rat(100)},
     slider_hr    |-> {Rat(100)},
     slider_acc   |-> {Rat(20), Rat(30), Rat(55)}]

\* The values a user drags the gamma slider to.
GammaPositions == {<<1, 2>>, Rat(1)}

(***************************************************************************)
(* calculate_irradiance_extended_model at the scale of the application.    *)
(* With these parameters a cell has up to 100 addends I_i cos^2 / r^2      *)
(* whose exact denominators do not fit 32-bit integers, so the array is    *)
(* kept as what determines it: the arrays and scalars passed to            *)
(* calculate_irradiance_optimized and the factor applied afterwards.  Cell *)
(* (r, c) is factor times the sum over (a, b) of                           *)
(* OptTerm(X_r[c], Y_r[r], x_s_points[a], y_s_points[b], L_sr, I_i).       *)
(***************************************************************************)
ExtendedModelArray ==
    [shape |-> <<accuracy, accuracy>>,
     X_r |-> [k \in 0..(accuracy - 1) |-> x_r(k)],
     Y_r |-> [k \in 0..(accuracy - 1) |-> y_r(k)],
     x_s_points |-> [k \in 0..(source_points_factor - 1) |-> x_s_points(k)],
     y_s_points |-> [k \in 0..(source_points_factor - 1) |-> y_s_points(k)],
     L_sr |-> R,
     I_i |-> ExtIntensity(p, num_source_points),
     factor |-> IF NeedsCorrection(R, l_s, h_s)
                THEN size_correction(R, l_s, h_s)
                ELSE Rat(1)]

\* the attributes calculate_irradiance_extended_model reads from self
Self ==
    [p |-> p, x |-> x, y |-> y, R |-> R, l_s |-> l_s, h_s |-> h_s,
     l_r |-> l_r, h_r |-> h_r, accuracy |-> accuracy]

\* source samples laid out from the source's corner
SourceSamples_Corner(centre, size, factor, k) ==
    RAdd(Linspace(Rat(0), size, factor, k), centre)

\* np.linspace(-size/2, size/2, source_points_factor) + centre
SourceSamples(centre, size, factor, k) ==
    RAdd(Linspace(RNeg(Half(size)), Half(size), factor, k), centre)

\* calculate_irradiance_extended_model as a function of the attributes it
\* reads: update() calls it on the attributes the handler has just assigned
calculate_irradiance_extended_model(self) ==
    LET L_sr == self.R
        match == self.accuracy
        factor == Max(SourceFactorLow,
                      Min(SourceFactorHigh, match \div SourceFactorDiv))
    IN  [shape |-> <<match, match>>,
         X_r |-> [k \in 0..(match - 1) |-> Linspace(Rat(0), self.l_r, match, k)],
         Y_r |-> [k \in 0..(match - 1) |-> Linspace(Rat(0), self.h_r, match, k)],
         x_s_points |-> [k \in 0..(factor - 1) |->
                            SourceSamples(self.x, self.l_s, factor, k)],
         y_s_points |-> [k \in 0..(factor - 1) |->
                            SourceSamples(self.y, self.h_s, factor, k)],
         L_sr |-> L_sr,
         I_i |-> ExtIntensity(self.p, factor * factor),
         factor |-> IF NeedsCorrection(L_sr, self.l_s, self.h_s)
                    THEN size_correction(L_sr, self.l_s, self.h_s)
                    ELSE Rat(1)]

\* np.min(result_array) and np.max(result_array): the least and the greatest
\* cell of the array they are given, kept unevaluated
np_min(A) == [least_of |-> A]
np_max(A) == [greatest_of |-> A]

AutoUpdateLimit == 50    \* if new_accuracy <= 50

\* the handler as its comment describes it: update() only up to the limit
HandlerUpdates_OnlyWhenLow(new_accuracy) == new_accuracy <= AutoUpdateLimit

\* on_slider_change: both branches of `if new_accuracy <= 50` end with
\* self.update()
HandlerUpdates(new_accuracy) ==
    IF new_accuracy <= AutoUpdateLimit THEN TRUE ELSE TRUE

\* update(): the field and its statistics (the drawing calls change no state
\* of the model)
update ==
    /\ result' = calculate_irradiance_extended_model(Self')
    /\ min_irradiance' = np_min(result')
    /\ max_irradiance' = np_max(result')

\* on_slider_change, entered once `sliders'` holds the widgets' new values
on_slider_change(entry) ==
    /\ p' = Whole(sliders'.slider_power)
    /\ x' = sliders'.slider_x
    /\ y' = sliders'.slider_y
    /\ R' = sliders'.slider_z
    /\ l_s' = sliders'.slider_ls
    /\ h_s' = sliders'.slider_hs
    /\ l_r' = sliders'.slider_lr
    /\ h_r' = sliders'.slider_hr
    /\ accuracy' = Whole(sliders'.slider_acc)
    /\ handler' = [name |-> entry, updated |-> HandlerUpdates(accuracy')]
    /\ IF HandlerUpdates(accuracy')
       THEN update
       ELSE UNCHANGED <<result, min_irradiance, max_irradiance>>

guiIdle == <<variant, pc, i, j, call, saved, pairVars, mainVars, parVars,
             normVars, schedVars>>

\* __init__: the parameters, setup_ui() and the first update()
InitGui ==
    /\ variant = "incupsulation"
    /\ p = Whole(ConstructorDefaults.slider_power)
    /\ x = ConstructorDefaults.slider_x /\ y = ConstructorDefaults.slider_y
    /\ R = ConstructorDefaults.slider_z
    /\ l_s = ConstructorDefaults.slider_ls /\ h_s = ConstructorDefaults.slider_hs
    /\ l_r = ConstructorDefaults.slider_lr /\ h_r = ConstructorDefaults.slider_hr
    /\ accuracy = Whole(ConstructorDefaults.slider_acc)
    /\ normalization_type = NormLabels[1]
    /\ power_gamma = GammaInit
    /\ sliders = valinit
    /\ result = calculate_irradiance_extended_model(Self)
    /\ min_irradiance = np_min(result)
    /\ max_irradiance = np_max(result)
    /\ handler = [name |-> "__init__", updated |-> TRUE]
    /\ pc = "gui" /\ i = 0 /\ j = 0 /\ call = 0 /\ saved = <<>>
    /\ outcome = "none"
    /\ IdlePair /\ IdleMain /\ IdlePar /\ IdleNorm /\ IdleSched

\* a slider is dragged to another position: Slider.set_val stores it and
\* calls the observer on_slider_change
Gui_SliderChange ==
    /\ pc = "gui"
    /\ \E n \in SliderNames : \E v \in SliderPositions[n] :
          /\ v # sliders[n]
          /\ v = value_in_bounds(sliders_config[n], v)
          /\ sliders' = [sliders EXCEPT ![n] = v]
    /\ on_slider_change("on_slider_change")
    /\ outcome' = "none"
    /\ UNCHANGED <<guiIdle, normalization_type, power_gamma>>

\* on_norm_change(label): a radio button is clicked
Gui_NormChange ==
    /\ pc = "gui"
    /\ \E k \in DOMAIN NormLabels : normalization_type' = NormLabels[k]
    /\ handler' = [name |-> "on_norm_change", updated |-> FALSE]
    /\ outcome' = "none"
    /\ UNCHANGED <<guiIdle, paramVars, result, sliders, power_gamma,
                   min_irradiance, max_irradiance>>

\* on_gamma_change(val): the gamma slider is dragged to another position
Gui_GammaChange ==
    /\ pc = "gui"
    /\ \E v \in GammaPositions : v # power_gamma /\ power_gamma' = v
    /\ handler' = [name |-> "on_gamma_change", updated |-> FALSE]
    /\ outcome' = "none"
    /\ UNCHANGED <<guiIdle, paramVars, result, sliders, normalization_type,
                   min_irradiance, max_irradiance>>

\* on_fast_mode: self.sliders['slider_acc'].set_val(30), whose observer is
\* on_slider_change
Gui_FastMode ==
    /\ pc = "gui"
    /\ sliders' = [sliders EXCEPT !.slider_acc = Rat(30)]
    /\ on_slider_change("on_fast_mode")
    /\ outcome' = "none"
    /\ UNCHANGED <<guiIdle, normalization_type, power_gamma>>

\* on_reset: its first statement reads self.slider_power.  The sliders are
\* stored in the dictionary self.sliders only, so the attribute lookup
\* raises AttributeError and the handler ends there.  With the attribute
\* present every slider would be reset to its valinit (each reset calling
\* on_slider_change), then the gamma slider and the radio buttons.
Gui_Reset ==
    /\ pc = "gui"
    /\ IF "slider_power" \in Attributes
       THEN /\ sliders' = valinit
            /\ on_slider_change("on_reset")
            /\ power_gamma' = GammaInit
            /\ normalization_type' = NormLabels[1]
            /\ outcome' = "none"
       ELSE /\ outcome' = "AttributeError"
            /\ handler' = [name |-> "on_reset", updated |-> FALSE]
            /\ UNCHANGED <<paramVars, result, sliders, normalization_type,
                           power_gamma, min_irradiance, max_irradiance>>
    /\ UNCHANGED guiIdle

NextGui ==
    \/ Gui_SliderChange
    \/ Gui_NormChange
    \/ Gui_GammaChange
    \/ Gui_FastMode
    \/ Gui_Reset

SpecGui == InitGui /\ [][NextGui]_vars

(***************************************************************************)
(* np.min and np.max of an array kept in that form.  Cell (r, c) is a      *)
(* positive multiple, the same for every cell, of the sum over the source  *)
(* samples (a, b) of 1 / distance_sq^2.  The sums are compared exactly, as *)
(* fractions of natural numbers of any length (sequences of limbs, least   *)
(* significant first, no leading zero limb); only cells that no other cell *)
(* beats addend by addend need their sum, and only sums that a few terms   *)
(* of their series do not tell apart need their fraction.                  *)
(***************************************************************************)
LimbBase == 10 ^ 3

RECURSIVE LongOfNat(_)
LongOfNat(n) ==
    IF n = 0 THEN <<>> ELSE <<n % LimbBase>> \o LongOfNat(n \div LimbBase)

\* the limbs lo..hi of the number whose k-th column holds s[k], with the
\* carry c into column lo, and the carry out of column hi (the recursions on
\* long numbers halve their range, which keeps them shallow)
RECURSIVE CarryRange(_, _, _, _)
CarryRange(s, lo, hi, c) ==
    IF lo = hi
    THEN [limbs |-> <<(s[lo] + c) % LimbBase>>,
          carry |-> (s[lo] + c) \div LimbBase]
    ELSE LET mid == (lo + hi) \div 2
             low == CarryRange(s, lo, mid, c)
             high == CarryRange(s, mid + 1, hi, low.carry)
         IN  [limbs |-> low.limbs \o high.limbs, carry |-> high.carry]

Carry(s) ==
    IF Len(s) = 0 THEN <<>>
    ELSE LET all == CarryRange(s, 1, Len(s), 0)
         IN  all.limbs \o LongOfNat(all.carry)

LongAdd(a, b) ==
    Carry([k \in 1..Max(Len(a), Len(b)) |->
              (IF k <= Len(a) THEN a[k] ELSE 0)
              + (IF k <= Len(b) THEN b[k] ELSE 0)])

\* a[m] * b[k + 1 - m] summed over m in lo..hi
RECURSIVE ColumnSum(_, _, _, _, _)
ColumnSum(a, b, k, lo, hi) ==
    IF lo > hi THEN 0
    ELSE IF lo = hi THEN a[lo] * b[k + 1 - lo]
    ELSE LET mid == (lo + hi) \div 2
         IN  ColumnSum(a, b, k, lo, mid) + ColumnSum(a, b, k, mid + 1, hi)

LongMul(a, b) ==
    IF a = <<>> \/ b = <<>> THEN <<>>
    ELSE Carry([k \in 1..(Len(a) + Len(b) - 1) |->
                   ColumnSum(a, b, k, Max(1, k + 1 - Len(b)), Min(k, Len(a)))])

RECURSIVE LongPow(_, _)
LongPow(a, k) ==
    IF k = 0 THEN <<1>>
    ELSE IF k = 1 THEN a
    ELSE LET h == LongPow(a, k \div 2)
         IN  LongMul(LongMul(h, h), IF k % 2 = 1 THEN a ELSE <<1>>)

LongLess(a, b) ==
    IF Len(a) # Len(b) THEN Len(a) < Len(b)
    ELSE \E k \in 1..Len(a) :
            a[k] < b[k] /\ \A m \in (k + 1)..Len(a) : a[m] = b[m]

\* fractions <<numerator, denominator>> of such numbers
FracAdd(f, g) ==
    <<LongAdd(LongMul(f[1], g[2]), LongMul(g[1], f[2])), LongMul(f[2], g[2])>>

FracLess(f, g) == LongLess(LongMul(f[1], g[2]), LongMul(g[1], f[2]))

FracEq(f, g) == LongMul(f[1], g[2]) = LongMul(g[1], f[2])

\* a common denominator q of the coordinates and of L_sr
RECURSIVE LCMOf(_)
LCMOf(S) ==
    IF S = {} THEN 1
    ELSE LET d == CHOOSE d \in S : TRUE
             m == LCMOf(S \ {d})
         IN  (m \div GCD(m, d)) * d

CommonDenominator(A) ==
    LCMOf({A.X_r[k][2] : k \in DOMAIN A.X_r}
          \cup {A.Y_r[k][2] : k \in DOMAIN A.Y_r}
          \cup {A.x_s_points[k][2] : k \in DOMAIN A.x_s_points}
          \cup {A.y_s_points[k][2] : k \in DOMAIN A.y_s_points}
          \cup {A.L_sr[2]})

Scaled(v, q) == v[1] * (q \div v[2])

\* L_sr**2, in units of 1 / q^2
standoff_sq(A, q) ==
    LET L == LongOfNat(Abs(Scaled(A.L_sr, q))) IN LongMul(L, L)

\* dx**2 + dy**2 of cell <<r, c>> and source sample <<a, b>>, in units of
\* 1 / q^2; distance_sq is this plus L_sr**2
planar_sq(A, q, cell, ab) ==
    LET dx == LongOfNat(Abs(Scaled(A.X_r[cell[2]], q)
                            - Scaled(A.x_s_points[ab[1]], q)))
        dy == LongOfNat(Abs(Scaled(A.Y_r[cell[1]], q)
                            - Scaled(A.y_s_points[ab[2]], q)))
    IN  LongAdd(LongMul(dx, dx), LongMul(dy, dy))

\* the dx**2 + dy**2 of a cell, one per source sample, in the order of the
\* loops `for i in prange(num_x_s)`, `for j in range(num_y_s)`
CellDistances(A, q, cell) ==
    LET ny == Cardinality(DOMAIN A.y_s_points)
        nx == Cardinality(DOMAIN A.x_s_points)
    IN  [n \in 1..(nx * ny) |->
            planar_sq(A, q, cell, <<(n - 1) \div ny, (n - 1) % ny>>)]

\* the bag of a sequence: cells with the same bag of distances are equal
BagOf(seq) ==
    [d \in {seq[n] : n \in DOMAIN seq} |->
        Cardinality({n \in DOMAIN seq : seq[n] = d})]

\* the sum of 1 / (t + L2)^2 over the entries lo..hi of ts
RECURSIVE SumOfInverses(_, _, _, _)
SumOfInverses(ts, L2, lo, hi) ==
    IF lo = hi
    THEN LET d == LongAdd(ts[lo], L2) IN <<<<1>>, LongMul(d, d)>>
    ELSE LET mid == (lo + hi) \div 2
         IN  FracAdd(SumOfInverses(ts, L2, lo, mid),
                     SumOfInverses(ts, L2, mid + 1, hi))

(***************************************************************************)
(* Most sums are told apart without their full fractions.  For             *)
(* 0 <= 2 t <= L2, 1 / (t + L2)^2 = (1 / L2^2) * (1 - 2 e + 3 e^2 - ...)   *)
(* with e = t / L2, an alternating series of decreasing terms: stopped     *)
(* after an odd power it is below the value, after an even power above.    *)
(* Over a cell, and times L2^K, the term of power k is                     *)
(* (k + 1) * L2^(K - k) * (sum of t^k), a natural number.                  *)
(***************************************************************************)
\* the sum of t^k over the entries lo..hi of ts
RECURSIVE PowerSum(_, _, _, _)
PowerSum(ts, k, lo, hi) ==
    IF lo = hi THEN LongPow(ts[lo], k)
    ELSE LET mid == (lo + hi) \div 2
         IN  LongAdd(PowerSum(ts, k, lo, mid), PowerSum(ts, k, mid + 1, hi))

\* the terms of powers k, k + 2, ... up to `last`, times L2^K
RECURSIVE SeriesTerms(_, _, _, _, _)
SeriesTerms(ts, L2, K, k, last) ==
    IF k > last THEN <<>>
    ELSE LongAdd(LongMul(LongOfNat(k + 1),
                         LongMul(LongPow(L2, K - k),
                                 PowerSum(ts, k, 1, Len(ts)))),
                 SeriesTerms(ts, L2, K, k + 2, last))

\* for odd K: the series up to power K is plus - minus (below the sum), up
\* to power K - 1 it is plus - less (above the sum)
SeriesBounds(ts, L2, K) ==
    [plus  |-> SeriesTerms(ts, L2, K, 0, K - 1),
     minus |-> SeriesTerms(ts, L2, K, 1, K),
     less  |-> SeriesTerms(ts, L2, K, 1, K - 2)]

\* the upper bound of u is below the lower bound of v
SurelyLess(u, v) ==
    LongLess(LongAdd(u.plus, v.minus), LongAdd(v.plus, u.less))

LowerLess(u, v) ==
    LongLess(LongAdd(u.plus, v.minus), LongAdd(v.plus, u.minus))

UpperLess(u, v) ==
    LongLess(LongAdd(u.plus, v.less), LongAdd(v.plus, u.less))

\* |X_r - x_s_points[a]| at column c, for each source sample a
ColumnOffsets(A, c) ==
    [a \in DOMAIN A.x_s_points |-> RAbs(RSub(A.X_r[c], A.x_s_points[a]))]

\* |Y_r - y_s_points[b]| at row r, for each source sample b
RowOffsets(A, r) ==
    [b \in DOMAIN A.y_s_points |-> RAbs(RSub(A.Y_r[r], A.y_s_points[b]))]

\* the offsets u can be paired with the offsets v, none of u the larger one:
\* up to any bound, u has at least as many offsets as v
NoFarther(u, v) ==
    \A b \in DOMAIN v :
        Cardinality({a \in DOMAIN u : RLeq(u[a], v[b])})
            >= Cardinality({a \in DOMAIN v : RLeq(v[a], v[b])})

\* Every addend shrinks when |dx| or |dy| grows, so a row (column) whose
\* offsets can be paired with strictly nearer ones of another row (column)
\* holds no greatest cell, and one that can be paired with strictly farther
\* ones holds no least cell.
Undominated(offsets, greatest) ==
    {m \in DOMAIN offsets : \A k \in DOMAIN offsets :
        IF greatest
        THEN NoFarther(offsets[m], offsets[k]) \/ ~NoFarther(offsets[k], offsets[m])
        ELSE NoFarther(offsets[k], offsets[m]) \/ ~NoFarther(offsets[m], offsets[k])}

\* the cells of S with the greatest (least) sum, by their full fractions
ExtremeCellsExact(S, ts, L2, greatest) ==
    LET sums == [cell \in S |-> SumOfInverses(ts[cell], L2, 1, Len(ts[cell]))]
        best == CHOOSE m \in S : \A k \in S :
                    IF greatest THEN ~FracLess(sums[m], sums[k])
                                ELSE ~FracLess(sums[k], sums[m])
    IN  {cell \in S : FracEq(sums[cell], sums[best])}

\* the cells of S, no two with the same bag, with the greatest (least) sum:
\* those the bounds of odd order K do not rule out, looked at again with two
\* more powers while several are left, and by their fractions in the end
RECURSIVE ExtremeOf(_, _, _, _, _)
ExtremeOf(S, ts, L2, K, greatest) ==
    LET bounds == [cell \in S |-> SeriesBounds(ts[cell], L2, K)]
        best == CHOOSE m \in S : \A k \in S :
                    IF greatest THEN ~LowerLess(bounds[m], bounds[k])
                                ELSE ~UpperLess(bounds[k], bounds[m])
        left == {cell \in S :
                    IF greatest THEN ~SurelyLess(bounds[cell], bounds[best])
                                ELSE ~SurelyLess(bounds[best], bounds[cell])}
    IN  IF left = {best} THEN left
        ELSE IF K >= 11 THEN ExtremeCellsExact(left, ts, L2, greatest)
        ELSE ExtremeOf(left, ts, L2, K + 2, greatest)

\* the cells <<row, column>> whose sum of 1 / distance_sq^2 is the greatest
\* (the least) of the array
ExtremeCells(A, greatest) ==
    LET q == CommonDenominator(A)
        L2 == standoff_sq(A, q)
        rows == Undominated([r \in DOMAIN A.Y_r |-> RowOffsets(A, r)], greatest)
        cols == Undominated([c \in DOMAIN A.X_r |-> ColumnOffsets(A, c)], greatest)
        ts == [cell \in rows \X cols |-> CellDistances(A, q, cell)]
        bag == [cell \in rows \X cols |-> BagOf(ts[cell])]
        \* one cell for each bag
        one == {CHOOSE cell \in rows \X cols : bag[cell] = t :
                   t \in {bag[cell] : cell \in rows \X cols}}
        series == \A cell \in one : \A n \in DOMAIN ts[cell] :
                      ~LongLess(L2, LongAdd(ts[cell][n], ts[cell][n]))
        extreme == IF series THEN ExtremeOf(one, ts, L2, 3, greatest)
                   ELSE ExtremeCellsExact(one, ts, L2, greatest)
    IN  {cell \in rows \X cols : \E m \in extreme : bag[cell] = bag[m]}

\* np.max(result_array): the cells <<row, column>> that attain it.  The
\* cells are I_i * factor * L_sr^2 times their sum, so the sign of I_i tells
\* which end of the sums is the maximum.
GreatestCells(A) ==
    IF A.I_i[1] = 0 THEN (DOMAIN A.Y_r) \X (DOMAIN A.X_r)
    ELSE ExtremeCells(A, A.I_i[1] > 0)

\* np.min(result_array): the cells <<row, column>> that attain it
LeastCells(A) ==
    IF A.I_i[1] = 0 THEN (DOMAIN A.Y_r) \X (DOMAIN A.X_r)
    ELSE ExtremeCells(A, A.I_i[1] < 0)

\* the indices of the entries of `coords` nearest to `target`
NearestIndices(coords, target) ==
    {m \in DOMAIN coords : \A k \in DOMAIN coords :
        RLeq(RAbs(RSub(coords[m], target)), RAbs(RSub(coords[k], target)))}

\* the four corners of a match x match grid
Corners(match) == {0, match - 1} \X {0, match - 1}

\* receiver 100 x 100, source 1 x 1 at (50, 50), L = 500, P = 500,
\* accuracy 30: the application as constructed, before any slider event
ReferenceScenario ==
    /\ pc = "gui"
    /\ Self = [p |-> 500, x |-> Rat(50), y |-> Rat(50), R |-> Rat(500),
               l_s |-> Rat(1), h_s |-> Rat(1), l_r |-> Rat(100),
               h_r |-> Rat(100), accuracy |-> 30]

\* C14: in the reference scenario the maximum of the field is attained at
\* the grid points nearest to (50, 50), whose row and column indices are
\* 14 and 15, and only there; the minimum is attained at the four receiver
\* corners; and the maximum exceeds the minimum, which is positive.
C14_ReferenceExtremes ==
    ReferenceScenario =>
        /\ NearestIndices(result.X_r, x) = {14, 15}
        /\ NearestIndices(result.Y_r, y) = {14, 15}
        /\ GreatestCells(result) = {14, 15} \X {14, 15}
        /\ Corners(accuracy) \subseteq LeastCells(result)
        /\ LeastCells(result) \cap GreatestCells(result) = {}
        /\ RLess(Rat(0), result.I_i) /\ RLess(Rat(0), result.L_sr)
        /\ RLess(Rat(0), result.factor)

C14_Witness ==
    /\ ReferenceScenario
    /\ handler.name = "__init__"
    /\ result.shape = <<30, 30>>
    /\ <<14, 15>> \in GreatestCells(result)
    /\ <<29, 0>> \in LeastCells(result)

\* the stored statistics and array are those of a computation on the
\* current parameters
StoredFieldIsFresh ==
    pc = "gui" =>
        /\ result = ExtendedModelArray
        /\ result.shape = <<accuracy, accuracy>>
        /\ DOMAIN result.X_r = 0..(accuracy - 1)
        /\ DOMAIN result.Y_r = 0..(accuracy - 1)
        /\ min_irradiance = np_min(result)
        /\ max_irradiance = np_max(result)

\* a step of on_norm_change or on_gamma_change keeps the array and its
\* statistics
DisplayEventKeepsField ==
    handler'.name \in {"on_norm_change", "on_gamma_change"} =>
        UNCHANGED <<result, min_irradiance, max_irradiance>>

\* C15: after any sequence of slider, normalization, gamma and fast-mode
\* events the stored result_array is the field a fresh computation yields
\* for the current parameters, its shape is accuracy x accuracy, and
\* min_irradiance and max_irradiance are np.min and np.max of that array;
\* normalization and gamma events leave all three unchanged.
C15_NoHistoryDependence ==
    []StoredFieldIsFresh /\ [][DisplayEventKeepsField]_vars

C15_Witness ==
    /\ pc = "gui"
    /\ handler.name = "on_norm_change"
    /\ normalization_type = "log"
    /\ power_gamma = Rat(1)
    /\ accuracy = 55 /\ l_s = Rat(20) /\ R = Rat(200) /\ p = 1001
    /\ result.shape = <<55, 55>>
    /\ result = ExtendedModelArray

\* C16: on_slider_change calls update() only when the accuracy read from
\* the accuracy slider is <= 50; a slider change that yields an accuracy
\* above 50 triggers no recomputation.
C16_UpdateOnlyUpToLimit ==
    (pc = "gui" /\ handler.name = "on_slider_change") =>
        (handler.updated <=> accuracy <= AutoUpdateLimit)

\* C17: on_reset completes and leaves every parameter at its constructor
\* default (p = 500, x = 50, y = 50, R = 500, l_s = 1, h_s = 1, l_r = 100,
\* h_r = 100, accuracy = 30, power_gamma = 0.5, normalization_type =
\* 'linear'), with result_array recomputed for those defaults.
C17_ResetRestoresDefaults ==
    (pc = "gui" /\ handler.name = "on_reset") =>
        /\ outcome = "none"
        /\ Self = [p |-> 500, x |-> Rat(50), y |-> Rat(50), R |-> Rat(500),
                   l_s |-> Rat(1), h_s |-> Rat(1), l_r |-> Rat(100),
                   h_r |-> Rat(100), accuracy |-> 30]
        /\ power_gamma = <<1, 2>>
        /\ normalization_type = "linear"
        /\ handler.updated
        /\ result = ExtendedModelArray

\* every slider's value lies in the range create_sliders gave it
SlidersInRange ==
    \A n \in SliderNames :
        /\ RLeq(sliders_config[n].vmin, sliders[n])
        /\ RLeq(sliders[n], sliders_config[n].vmax)

\* every value a slider can take: its grid vmin + k * valstep, clipped
GridPositions(cfg) ==
    {value_in_bounds(cfg, RAdd(cfg.vmin, RMul(Rat(k), cfg.valstep))) :
        k \in 0..(Round(RDiv(RSub(cfg.vmax, cfg.vmin), cfg.valstep)) + 1)}

\* no standoff of slider_z meets the test with any source side of
\* slider_ls or slider_hs as the larger side
NoPositionNeedsCorrection ==
    \A L_sr \in GridPositions(sliders_config.slider_z) :
        /\ \A ls \in GridPositions(sliders_config.slider_ls) :
              ~NeedsCorrection(L_sr, ls, sliders_config.slider_hs.vmin)
        /\ \A hs \in GridPositions(sliders_config.slider_hs) :
              ~NeedsCorrection(L_sr, sliders_config.slider_ls.vmin, hs)

\* C21: in every state of the application reachable through the sliders
\* (standoff R in [200, 1000], source length and height in [0.1, 20]) the
\* test R < 10 * max(l_s, h_s) is false, so the small-distance correction
\* is never applied and the stored field is the uncorrected sum.
C21_CorrectionNeverApplied ==
    pc = "gui" =>
        /\ SlidersInRange
        /\ RLeq(Rat(200), R) /\ RLeq(R, Rat(1000))
        /\ RLeq(<<1, 10>>, l_s) /\ RLeq(l_s, Rat(20))
        /\ RLeq(<<1, 10>>, h_s) /\ RLeq(h_s, Rat(20))
        /\ ~NeedsCorrection(R, l_s, h_s)
        /\ result.factor = Rat(1)
        \* a fact of the slider ranges alone: evaluated once, on construction
        /\ handler.name = "__init__" => NoPositionNeedsCorrection

C21_Witness ==
    /\ pc = "gui"
    /\ handler.name = "on_slider_change" /\ handler.updated
    /\ R = Rat(200) /\ l_s = Rat(1) /\ h_s = Rat(20)
    /\ result.L_sr = Rat(200)
    /\ result.factor = Rat(1)

====
